---- MODULE Spec2Model ----
(***************************************************************************)
(* Model of the Reactome crawl engine (scraper.py): URL normalisation and  *)
(* scoping, the frontier loop of ReactomeScraper.crawl, page scraping,     *)
(* image mirroring and persistence.                                        *)
(*                                                                         *)
(* Strings are sequences of tokens.  The URL delimiters ":", "/", "?",     *)
(* "#" and ";" are tokens of their own; every other token is a run of      *)
(* non-delimiter characters ("https", "reactome.org", "pic.png").          *)
(***************************************************************************)
EXTENDS Integers, Sequences, FiniteSets, TLC

----------------------------------------------------------------------------
(* Python string primitives on token sequences *)

RECURSIVE Find(_, _, _)
\* str.find(t, start): least index >= start holding t, 0 when absent
Find(s, t, start) ==
    IF start > Len(s) THEN 0
    ELSE IF s[start] = t THEN start
    ELSE Find(s, t, start + 1)

RECURSIVE RFind(_, _, _)
\* str.rfind(t) scanning down from index last, 0 when absent
RFind(s, t, last) ==
    IF last < 1 THEN 0
    ELSE IF s[last] = t THEN last
    ELSE RFind(s, t, last - 1)

Take(s, n) == SubSeq(s, 1, n)
Drop(s, n) == SubSeq(s, n + 1, Len(s))

RECURSIVE RStrip(_, _)
\* str.rstrip(t): drops every trailing t
RStrip(s, t) ==
    IF Len(s) > 0 /\ s[Len(s)] = t THEN RStrip(Take(s, Len(s) - 1), t) ELSE s

RECURSIVE LStrip(_, _)
LStrip(s, t) ==
    IF Len(s) > 0 /\ s[1] = t THEN LStrip(Drop(s, 1), t) ELSE s

\* str.strip(t) that drops the trailing t only
Strip_Trailing(s, t) == RStrip(s, t)

Strip(s, t) == LStrip(RStrip(s, t), t)

StartsWith(s, p) == Len(s) >= Len(p) /\ Take(s, Len(p)) = p

----------------------------------------------------------------------------
(* urllib.parse.urlparse *)

\* tokens made only of scheme characters (letters, digits, "+", "-", "."),
\* all of which start with a letter
SchemeCharToks ==
    {"https", "HTTPS", "http", "file", "mailto", "javascript", "data", "reactome.org",
     "Reactome.org", "www.reactome.org", "other.org", "about", "news", "a", "b",
     "download", "docs", "intro", "img", "top", "pic.png", "doc.pdf", "page.html"}

\* str.lower() on one token
LowerTok(t) ==
    CASE t = "HTTPS" -> "https"
      [] t = "Reactome.org" -> "reactome.org"
      [] OTHER -> t

Lower(s) == [i \in 1..Len(s) |-> LowerTok(s[i])]

\* urllib.parse.uses_params, restricted to the schemes of SchemeCharToks
uses_params == {<<>>, <<"http">>, <<"https">>}

\* the index i of the first ":" ends a scheme when only scheme characters
\* come before it; 0 otherwise
SchemeEndAt(url, i) ==
    IF i > 1 /\ \A k \in 1..(i - 1) : url[k] \in SchemeCharToks THEN i ELSE 0

\* index of the ":" ending the scheme, 0 when the URL has no scheme
SchemeEnd(url) == SchemeEndAt(url, Find(url, ":", 1))

\* the least element of a set of indexes, n when the set is empty
LeastOr(ds, n) == IF ds = {} THEN n ELSE CHOOSE m \in ds : \A k \in ds : m <= k

\* _splitnetloc(url, 2): index of the first of "/", "?", "#" from position 3
NetlocEnd(url) ==
    LeastOr({Find(url, d, 3) : d \in {"/", "?", "#"}} \ {0}, Len(url) + 1)

\* s cut at index i, which is dropped; <<s, <<>>>> when i = 0
SplitAt(s, i) == IF i = 0 THEN <<s, <<>>>> ELSE <<Take(s, i - 1), Drop(s, i)>>

\* str.split(t, 1), with <<>> for a missing second part
Split1(s, t) == SplitAt(s, Find(s, t, 1))

\* the ";" of the params is looked for after the last "/" (index slash)
SplitParamsFrom(url, slash) ==
    SplitAt(url, IF slash > 0 THEN Find(url, ";", slash) ELSE Find(url, ";", 1))

\* _splitparams(url): <<path, params>>
SplitParams(url) == SplitParamsFrom(url, RFind(url, "/", Len(url)))

\* urlsplit, step by step: the scheme (ending at index se) is lower-cased
\* and cut off, a URL without one getting the default; then the netloc
\* (ending before index ne), then the fragment, then the query
SplitScheme(url, se, default) ==
    IF se > 0 THEN <<Lower(Take(url, se - 1)), Drop(url, se)>> ELSE <<default, url>>

SplitNetloc(u, ne) ==
    IF StartsWith(u, <<"/", "/">>) THEN <<SubSeq(u, 3, ne - 1), Drop(u, ne - 1)>>
    ELSE <<<<>>, u>>

\* s, n, f, q are the pairs the four steps of urlsplit cut off
SplitResult(s, n, f, q) ==
    [scheme |-> s[1], netloc |-> n[1], path |-> q[1], query |-> q[2], fragment |-> f[2]]

SplitQuery(s, n, f) == SplitResult(s, n, f, Split1(f[1], "?"))

SplitFragment(s, n) == SplitQuery(s, n, Split1(n[2], "#"))

SplitAfterScheme(s) == SplitFragment(s, SplitNetloc(s[2], NetlocEnd(s[2])))

urlsplit(url, scheme) == SplitAfterScheme(SplitScheme(url, SchemeEnd(url), scheme))

\* r is a split URL and sp its <<path, params>>
ParseResult(r, sp) ==
    [scheme |-> r.scheme, netloc |-> r.netloc, path |-> sp[1], params |-> sp[2],
     query |-> r.query, fragment |-> r.fragment]

\* the params are split off for the schemes of uses_params only
ParamsOf(scheme, path) ==
    IF scheme \in uses_params /\ Find(path, ";", 1) > 0
    THEN SplitParams(path) ELSE <<path, <<>>>>

WithParams(r) == ParseResult(r, ParamsOf(r.scheme, r.path))

\* urlparse(url, scheme)
urlparse_scheme(url, scheme) == WithParams(urlsplit(url, scheme))

urlparse(url) == urlparse_scheme(url, <<>>)

----------------------------------------------------------------------------
(* ReactomeScraper: URL helpers *)

\* tokens whose lower-cased text ends with one of skip_extensions
SkipExtToks == {"pic.png", "doc.pdf"}

\* tokens whose text starts with one of skip_paths without its leading "/"
SkipPathToks == {"download"}

SiteHosts == {<<"reactome.org">>, <<"www.reactome.org">>}

\* the body of normalize_url after parsed = urlparse(url)
Normalized(parsed) ==
    RStrip(parsed.scheme \o <<":", "/", "/">> \o parsed.netloc \o parsed.path, "/")

normalize_url(url) == Normalized(urlparse(url))

\* the body of is_valid_url after parsed = urlparse(url)
InScope(parsed, path_lower) ==
    IF parsed.netloc # <<>> /\ parsed.netloc \notin SiteHosts THEN FALSE
    ELSE IF Len(path_lower) > 0 /\ path_lower[Len(path_lower)] \in SkipExtToks
         THEN FALSE
    ELSE IF Len(parsed.path) >= 2 /\ parsed.path[1] = "/"
            /\ parsed.path[2] \in SkipPathToks
         THEN FALSE
    ELSE TRUE

ValidParsed(parsed) == InScope(parsed, Lower(parsed.path))

is_valid_url(url) == ValidParsed(urlparse(url))

\* 'index' for an empty path
RouteOf(path) == IF path = <<>> THEN <<"index">> ELSE path

get_route_path(url) == RouteOf(Strip(urlparse(url).path, "/"))

----------------------------------------------------------------------------
(* urllib.parse.urljoin and os.path *)

uses_relative == {<<>>, <<"http">>, <<"https">>}

\* urlunparse for a URL with a netloc
urlunparse(scheme, netloc, path, params, query, fragment) ==
    LET p1 == IF params # <<>> THEN path \o <<";">> \o params ELSE path
        p2 == IF p1 # <<>> /\ p1[1] # "/" THEN <<"/">> \o p1 ELSE p1
        p3 == <<"/", "/">> \o netloc \o p2
        p4 == IF scheme # <<>> THEN scheme \o <<":">> \o p3 ELSE p3
        p5 == IF query # <<>> THEN p4 \o <<"?">> \o query ELSE p4
    IN  IF fragment # <<>> THEN p5 \o <<"#">> \o fragment ELSE p5

RECURSIVE Collapse(_)
\* segments[1:-1] = filter(None, segments[1:-1]): runs of "/" become one "/"
Collapse(s) ==
    IF Len(s) < 2 THEN s
    ELSE IF s[1] = "/" /\ s[2] = "/" THEN Collapse(Drop(s, 1))
    ELSE <<s[1]>> \o Collapse(Drop(s, 1))

\* the path of the joined URL: path itself when absolute, otherwise the
\* base path up to its last "/" followed by path
Merged(bpath, path) ==
    IF path # <<>> /\ path[1] = "/" THEN path
    ELSE Collapse((IF bpath = <<>> THEN <<"/">>
                   ELSE Take(bpath, RFind(bpath, "/", Len(bpath))))
                  \o path)

\* b and u are the parsed base and url
JoinParsed(url, b, u) ==
    IF u.scheme # b.scheme \/ u.scheme \notin uses_relative THEN url
    ELSE IF u.netloc # <<>>
         THEN urlunparse(u.scheme, u.netloc, u.path, u.params, u.query, u.fragment)
    ELSE IF u.path = <<>> /\ u.params = <<>>
         THEN urlunparse(u.scheme, b.netloc, b.path, b.params,
                         IF u.query = <<>> THEN b.query ELSE u.query,
                         u.fragment)
    ELSE urlunparse(u.scheme, b.netloc, Merged(b.path, u.path), u.params, u.query,
                    u.fragment)

\* url is parsed with the scheme of the base as its default
JoinBase(url, b) == JoinParsed(url, b, urlparse_scheme(url, b.scheme))

\* urljoin(base, url) for a base with a netloc and paths without "." and ".."
urljoin(base, url) ==
    IF url = <<>> THEN base ELSE JoinBase(url, urlparse(base))

\* os.path.join(a, b)
Join(a, b) ==
    IF b # <<>> /\ b[1] = "/" THEN b
    ELSE IF a = <<>> \/ a[Len(a)] = "/" THEN a \o b
    ELSE a \o <<"/">> \o b

\* the end of os.path.dirname: head is p up to and with its last "/"
DirnameOf(head) == IF RStrip(head, "/") = <<>> THEN head ELSE RStrip(head, "/")

\* os.path.dirname(p)
Dirname(p) == DirnameOf(Take(p, RFind(p, "/", Len(p))))

\* os.path.basename(p)
Basename(p) == Drop(p, RFind(p, "/", Len(p)))
----------------------------------------------------------------------------
(* Bounds and the universe of inputs *)

MaxSeeds == 2      \* length of start_urls
MaxLinks == 2      \* anchors per fetched document
MaxPosts == 1      \* blog-post regions per document
MaxCap   == 2      \* largest page cap tried
MaxTail  == 3      \* tokens after the prefix of an input of the URL functions
MaxBlog  == 2      \* blog-post regions handed to save_content on its own
MaxImgs  == 2      \* img elements of a region handed to process_images_in_content

None == -1         \* max_pages=None; the caps tried are None and 0..MaxCap

OUTPUT_DIR == <<"scraped_pages">>

Site == <<"https", ":", "/", "/", "reactome.org">>

\* start_urls are drawn from these absolute same-site URLs
SeedUrls ==
    { Site \o <<"/">>,
      Site \o <<"/", "about", "#", "top">>,
      Site \o <<"/", "download">> }

\* href attributes a fetched document may carry
Hrefs ==
    { <<"/", "about", "/">>,
      Site \o <<"#", "top">>,
      <<"#", "top">>,
      <<"javascript", ":", "void">>,
      <<"https", ":", "/", "/", "other.org", "/", "a">>,
      <<"/", "download", "/", "a">> }

\* src attributes of the img elements of a region
ImgSrcs == { <<"/", "img", "/", "pic.png">> }

\* href attributes handed to extract_links on its own
HrefInputs ==
    Hrefs \cup { <<"mailto", ":", "a">>,
                 <<"/", "docs", "/", "intro", "#", "top">>,
                 <<"/", "docs", "/", "intro">>,
                 <<"intro">> }

\* current_url of extract_links on its own: the CanonicalURL of a page
PageUrls == { Site, Site \o <<"/", "about">>, Site \o <<"/", "docs", "/", "intro">> }

\* src attributes handed to process_images_in_content on its own; <<>> is
\* an img element without src
ImgInputs ==
    ImgSrcs \cup { <<>>,
                   <<"img", "/", "pic.png">>,
                   <<"/", "/", "other.org", "/", "img", "/", "pic.png">>,
                   <<"data", ":", "a">> }

\* a region is the sequence of the src attributes of its img elements
Regions == { <<>> } \cup { <<s>> : s \in ImgSrcs }

SeqsUpTo(S, n) == UNION { [1..k -> S] : k \in 0..n }

\* inputs of the URL functions: a prefix followed by up to MaxTail tokens
UrlPrefixes == { Site, Site \o <<"/", "a">> }

TailToks == {"/", "#", ";", "a"}

\* further inputs: a host in capitals, the second allowed host, a route
\* ending in .html and a URL of another scheme without a host
ExtraUrls ==
    { <<"https", ":", "/", "/", "Reactome.org", "/", "a">>,
      <<"https", ":", "/", "/", "www.reactome.org", "/", "a">>,
      Site \o <<"/", "a", "/", "page.html">>,
      <<"file", ":", "/", "/", "/", "a">> }

UrlInputs ==
    { p \o t : p \in UrlPrefixes, t \in SeqsUpTo(TailToks, MaxTail) } \cup ExtraUrls

\* outcomes of the GET of download_image: written and indexed; the request
\* raises; the response is not an image; creating the file raises
ImgOutcomes == {"ok", "reqerr", "nonimage", "oserror"}

\* outcomes tried on download_image on its own: also the body of the
\* response breaking off while it is written
GetOutcomes == ImgOutcomes \cup {"streamerr"}

\* img_url arguments of download_image on its own, for the page current_url
AssetInputs(current_url) ==
    { urljoin(current_url, s) : s \in ImgInputs \ {<<>>} }
    \cup { <<"/", "/", "other.org", "/", "img", "/", "pic.png">> }

\* contents of downloaded_images tried on download_image on its own
KnownSets ==
    { {},
      { Site \o <<"/", "img", "/", "pic.png">> },
      { <<"https", ":", "/", "/", "other.org", "/", "img", "/", "pic.png">> } }

\* kinds of failed page fetch
FetchFailures == {"network", "httpstatus", "nonhtml"}

----------------------------------------------------------------------------
(* State *)

VARIABLES
    max_pages,            \* self.max_pages
    visited_urls,         \* self.visited_urls
    downloaded_images,    \* self.downloaded_images
    urls_to_visit,        \* self.urls_to_visit
    queued_urls,          \* crawl: queued_urls
    pages_scraped,        \* crawl: pages_scraped
    pc,                   \* position in crawl / scrape_page
    url,                  \* crawl: url (<<>> before the first dequeue)
    item_page_content,    \* scrape_page: <<>> for None, <<region>> otherwise
    blog_post_content,    \* scrape_page: list of regions
    new_links,            \* crawl: new_links
    anchors,              \* scrape_page: the href attributes of the anchors of soup
    outcome,              \* how the scrape_page call of this iteration went
    files,                \* content files on disk: path -> source URL and kind
    images,               \* image files on disk: path -> asset URL
    \* history of the run; each of appended, fetched, requested and stored
    \* is [once, again]: what happened at least once, and more than once
    appended,             \* URLs appended to urls_to_visit
    fetched,              \* URLs passed to scrape_page
    dequeues,             \* number of popleft calls
    depths,               \* link distance from the seeds of each entry of urls_to_visit
    url_depth,            \* link distance from the seeds of url
    slept,                \* time.sleep(self.delay) has returned since the last page GET
    seed_urls,            \* main, --seed-only: the list the for loop runs over
    seed_i,               \* main, --seed-only: entries of seed_urls the loop has taken
    requested,            \* asset URLs requested by download_image
    stored,               \* asset URLs whose bytes were written and indexed
    img_first,            \* asset URL -> the first path download_image returned
    img_moved,            \* asset URLs for which a later call returned another path
    saved,                \* what save_content wrote for this page: path -> body
    \* URL functions applied to inputs
    u1, u2, r1, r2, fpc,
    \* flatten_folders.main
    tree,                 \* the directories and files under MDX_DIR
    single_file_folders,  \* main: the list the for loop runs over
    folder_i,             \* main: entries of single_file_folders the loop has taken
    made_progress,        \* main: made_progress, <<>> before its first assignment
    flattened_count,      \* main: flattened_count
    mpc                   \* position in main

crawl_vars ==
    <<max_pages, visited_urls, downloaded_images, urls_to_visit, queued_urls,
      pages_scraped, pc, url, item_page_content, blog_post_content, new_links,
      anchors, outcome, files, images, appended, fetched, dequeues, depths, url_depth,
      slept, seed_urls, seed_i,
      requested, stored, img_first, img_moved, saved>>

fn_vars == <<u1, u2, r1, r2, fpc>>

flat_vars == <<tree, single_file_folders, folder_i, made_progress, flattened_count, mpc>>

vars == <<crawl_vars, fn_vars, flat_vars>>

\* a local name before its first assignment; an assigned one holds <<value>>
Unbound == <<>>

\* flatten_folders is not running
FlatOff ==
    /\ tree = [dirs |-> {}, files |-> {}]
    /\ single_file_folders = <<>>
    /\ folder_i = 0
    /\ made_progress = Unbound
    /\ flattened_count = 0
    /\ mpc = "off"

\* f with key k set to v
Put(f, k, v) == [x \in DOMAIN f \cup {k} |-> IF x = k THEN v ELSE f[x]]

Empty == [x \in {} |-> 0]

NoHistory == [once |-> {}, again |-> {}]

Note(h, x) ==
    [once |-> h.once \cup {x},
     again |-> IF x \in h.once THEN h.again \cup {x} ELSE h.again]

----------------------------------------------------------------------------
(* ReactomeScraper: asset store *)

\* re.sub(r'[^\w\-_\.]', '_', name) on one token
SanitizeTok(t) == IF t \in {":", "/", "?", "#", ";"} THEN "_" ELSE t

Sanitize(s) == [i \in 1..Len(s) |-> SanitizeTok(s[i])]

\* the cleaned file name: the basename of the URL path or, without one,
\* image_<md5 of the URL>.png, the digest standing as the text of the URL
FileName(img_url, basename) ==
    Sanitize(IF basename = <<>> THEN <<"image_">> \o Sanitize(img_url) \o <<".png">>
             ELSE basename)

\* <<local_path, filename>> under images/<page_route>
LocalPath(page_route, filename) ==
    <<Join(Join(Join(OUTPUT_DIR, <<"images">>), page_route), filename), filename>>

get_image_local_path(img_url, page_route) ==
    LocalPath(page_route, FileName(img_url, Basename(urlparse(img_url).path)))

\* The store st holds downloaded_images, the image files and the history of
\* requests, stores and returned paths.

\* session.get(img_url) was called
Requested(st, img_url) == [st EXCEPT !.requested = Note(@, img_url)]

\* the bytes were written to local_path and img_url added to downloaded_images
Written(st, img_url, local_path) ==
    [st EXCEPT !.images = Put(@, local_path, img_url),
               !.downloaded = @ \cup {img_url},
               !.stored = Note(@, img_url)]

\* local_path was opened for writing and the body broke off: the file is
\* there, img_url is not in downloaded_images
Truncated(st, img_url, local_path) ==
    [st EXCEPT !.images = Put(@, local_path, img_url)]

\* download_image returned the path rel for img_url
ReturnedPath(st, img_url, rel) ==
    IF img_url \notin DOMAIN st.first
    THEN [st EXCEPT !.first = Put(@, img_url, rel)]
    ELSE IF st.first[img_url] # rel
         THEN [st EXCEPT !.moved = @ \cup {img_url}]
         ELSE st

\* a lookup that never finds the URL
AlreadyDownloaded_Never(st, img_url) == FALSE

\* "if img_url in self.downloaded_images"
AlreadyDownloaded(st, img_url) == img_url \in st.downloaded

\* download_image from the data: test on; lp is get_image_local_path and
\* rel the path os.path.join('images', page_route, filename).  The result
\* is [ret, st]: ret is <<>> for None and <<path>> otherwise.
Download(st, img_url, lp, rel, result) ==
    IF StartsWith(img_url, <<"data", ":">>) THEN [ret |-> <<>>, st |-> st]
    ELSE IF AlreadyDownloaded(st, img_url)
         THEN [ret |-> <<rel>>, st |-> ReturnedPath(st, img_url, rel)]
    ELSE IF result = "streamerr"
         THEN [ret |-> <<>>, st |-> Truncated(Requested(st, img_url), img_url, lp[1])]
    ELSE IF result # "ok" THEN [ret |-> <<>>, st |-> Requested(st, img_url)]
    ELSE [ret |-> <<rel>>,
          st  |-> ReturnedPath(Written(Requested(st, img_url), img_url, lp[1]),
                               img_url, rel)]

DownloadTo(st, img_url, page_route, lp, result) ==
    Download(st, img_url, lp, Join(Join(<<"images">>, page_route), lp[2]), result)

\* download_image once a scheme-less "//host/..." has got its "https:"
DownloadAbsolute(st, img_url, page_route, result) ==
    DownloadTo(st, img_url, page_route, get_image_local_path(img_url, page_route),
               result)

\* download_image looking up and requesting "//host/..." as written
download_image_AsWritten(st, img_url0, page_route, result) ==
    DownloadAbsolute(st, img_url0, page_route, result)

download_image(st, img_url0, page_route, result) ==
    DownloadAbsolute(st,
                     IF StartsWith(img_url0, <<"/", "/">>)
                     THEN <<"https", ":">> \o img_url0 ELSE img_url0,
                     page_route, result)

RECURSIVE process_images_in_content(_, _, _, _, _)

\* the rewriting that keeps the src as written for data-original-src
Rewritten_SrcKept(src, absolute_url, d) ==
    IF d.ret # <<>> THEN [src |-> d.ret[1], orig |-> src]
    ELSE [src |-> src, orig |-> <<>>]

\* the img element after download_image returned d.ret: [src, orig], orig
\* being data-original-src (<<>> when absent)
Rewritten(src, absolute_url, d) ==
    IF d.ret # <<>> THEN [src |-> d.ret[1], orig |-> absolute_url]
    ELSE [src |-> src, orig |-> <<>>]

\* rest is the result for the img elements after the first, ret what
\* download_image returned for the first
WithRest(img, ret, rest) ==
    [content |-> <<img>> \o rest.content, rets |-> <<ret>> \o rest.rets, st |-> rest.st]

\* d is the result of download_image for the first img element
AfterDownload(soup, current_url, page_route, results, absolute_url, d) ==
    WithRest(Rewritten(Head(soup), absolute_url, d), d.ret,
             process_images_in_content(Tail(soup), current_url, page_route, d.st,
                                       Tail(results)))

\* an img without src is skipped
FirstImg(soup, current_url, page_route, st, results, absolute_url) ==
    AfterDownload(soup, current_url, page_route, results, absolute_url,
                  IF Head(soup) = <<>> THEN [ret |-> <<>>, st |-> st]
                  ELSE download_image(st, absolute_url, page_route, Head(results)))

\* soup is the sequence of img src attributes of a region, results the
\* outcome of the GET of each; the result is [content, rets, st] where
\* content lists the img elements as rewritten and rets the local_path of
\* each
process_images_in_content(soup, current_url, page_route, st, results) ==
    IF soup = <<>> THEN [content |-> <<>>, rets |-> <<>>, st |-> st]
    ELSE FirstImg(soup, current_url, page_route, st, results,
                  urljoin(current_url, Head(soup)))

RECURSIVE Flatten(_)
Flatten(ss) == IF ss = <<>> THEN <<>> ELSE Head(ss) \o Flatten(Tail(ss))

RECURSIVE ProcessRegions(_, _, _, _, _)
\* the calls of process_images_in_content in extract_content, in order
ProcessRegions(regions, page_url, page_route, st, results) ==
    IF regions = <<>> THEN [contents |-> <<>>, st |-> st]
    ELSE LET r    == process_images_in_content(Head(regions), page_url, page_route, st,
                                               Take(results, Len(Head(regions))))
             rest == ProcessRegions(Tail(regions), page_url, page_route, r.st,
                                    Drop(results, Len(Head(regions))))
         IN  [contents |-> <<r.content>> \o rest.contents, st |-> rest.st]

\* r is the result of the calls of process_images_in_content
Extracted(item, r) ==
    [item_page_content |-> Take(r.contents, Len(item)),
     blog_post_content |-> Drop(r.contents, Len(item)),
     st |-> r.st]

\* item is <<>> when no div.item-page is found and <<region>> otherwise
extract_content(item, posts, page_url, st, results) ==
    Extracted(item, ProcessRegions(item \o posts, page_url, get_route_path(page_url),
                                   st, results))

----------------------------------------------------------------------------
(* ReactomeScraper: persistence and link extraction *)

HtmlToks == {"page.html", "item-page.html"}

BlogTok(i) ==
    CASE i = 1 -> "blogpost-1.html"
      [] i = 2 -> "blogpost-2.html"
      [] OTHER -> "blogpost-3.html"

\* a file with the Source line only
FileText_SourceOnly(page_url, content) ==
    << <<"<!-- Source: ">> \o page_url \o <<" -->">>, content >>

\* what the three f.write calls put into a file: the Source line, the
\* Scraped line with time.strftime('%Y-%m-%d %H:%M:%S'), the content
FileText(page_url, content) ==
    << <<"<!-- Source: ">> \o page_url \o <<" -->">>,
       <<"<!-- Scraped: ", "%Y-%m-%d %H:%M:%S", " -->">>,
       content >>

RECURSIVE BlogWrites(_, _, _, _)
BlogWrites(page_url, dir, posts, i) ==
    IF i > Len(posts) THEN <<>>
    ELSE <<[path |-> Join(dir, <<BlogTok(i)>>), source |-> page_url,
            kind |-> "blogpost", body |-> posts[i],
            text |-> FileText(page_url, posts[i])]>>
         \o BlogWrites(page_url, dir, posts, i + 1)

\* filepath.endswith('.html')
LeafFile(filepath) == filepath[Len(filepath)] \in HtmlToks

\* os.makedirs(filepath, exist_ok=True) of the blog block raises
\* FileExistsError: the item block has just written filepath as a file
SaveConflict(filepath, item, posts) ==
    item # <<>> /\ posts # <<>> /\ LeafFile(filepath)

\* filepath is os.path.join(self.output_dir, route_path)
SaveTo(page_url, filepath, item, posts) ==
    (IF item # <<>>
     THEN <<[path |-> IF LeafFile(filepath) THEN filepath
                      ELSE Join(filepath, <<"item-page.html">>),
             source |-> page_url, kind |-> "item-page", body |-> item[1],
             text |-> FileText(page_url, item[1])]>>
     ELSE <<>>)
    \o (IF SaveConflict(filepath, item, posts) THEN <<>>
        ELSE BlogWrites(page_url, filepath, posts, 1))

\* the files save_content opens and writes, in order, when no call of the
\* operating system fails for a cause outside save_content
save_content(page_url, item, posts) ==
    SaveTo(page_url, Join(OUTPUT_DIR, get_route_path(page_url)), item, posts)

\* save_content raises by its own doing
save_raises(page_url, item, posts) ==
    SaveConflict(Join(OUTPUT_DIR, get_route_path(page_url)), item, posts)

\* the arguments of the os.makedirs calls of save_content, in order
MakeDirs(route_path, item, posts) ==
    <<Join(OUTPUT_DIR, Dirname(route_path))>>
    \o (IF item # <<>> /\ ~LeafFile(Join(OUTPUT_DIR, route_path))
        THEN <<Join(OUTPUT_DIR, route_path)>> ELSE <<>>)
    \o (IF posts # <<>> THEN <<Join(OUTPUT_DIR, route_path)>> ELSE <<>>)

RECURSIVE WriteAll(_, _)
WriteAll(fs, writes) ==
    IF writes = <<>> THEN fs
    ELSE WriteAll(Put(fs, Head(writes).path,
                      [source |-> Head(writes).source, kind |-> Head(writes).kind]),
                  Tail(writes))

\* path -> body of the writes
Bodies(writes) ==
    [p \in { writes[i].path : i \in DOMAIN writes } |->
        (CHOOSE w \in { writes[i] : i \in DOMAIN writes } : w.path = p).body]

\* the skip test without the '#' prefix
SkippedHref_FragmentKept(href) ==
    \/ href = <<>>
    \/ StartsWith(href, <<"javascript", ":">>)
    \/ StartsWith(href, <<"mailto", ":">>)

\* href.startswith(('javascript:', 'mailto:', '#')) or empty
SkippedHref(href) ==
    \/ href = <<>>
    \/ StartsWith(href, <<"javascript", ":">>)
    \/ StartsWith(href, <<"mailto", ":">>)
    \/ StartsWith(href, <<"#">>)

\* normalized_url for an href
Resolved(href, current_url) == normalize_url(urljoin(current_url, href))

extract_links(hrefs, current_url) ==
    { u \in { Resolved(href, current_url) : href \in { h \in hrefs : ~SkippedHref(h) } } :
        is_valid_url(u) }
----------------------------------------------------------------------------
(* ReactomeScraper.crawl *)

\* the test without the queued_urls set
ShouldAppend_VisitedOnly(link, visited, queued) ==
    link \notin visited

\* the test guarding both appends to urls_to_visit
ShouldAppend(link, visited, queued) ==
    link \notin visited /\ link \notin queued

RECURSIVE AppendAll(_, _, _, _, _)
\* appends the links in order under ShouldAppend; q is [queue, queued, log,
\* depths], start tells the loop over start_urls, which normalises each
\* URL, and d is the link distance from the seeds of the links
AppendAll(links, visited, q, start, d) ==
    IF links = <<>> THEN q
    ELSE LET link == IF start THEN normalize_url(Head(links)) ELSE Head(links)
         IN  AppendAll(Tail(links), visited,
                       IF ShouldAppend(link, visited, q.queued)
                       THEN [queue  |-> Append(q.queue, link),
                             queued |-> q.queued \cup {link},
                             log    |-> Note(q.log, link),
                             depths |-> Append(q.depths, d)]
                       ELSE q,
                       start, d)

\* the cap test without the truth test of max_pages: 0 is a cap
CapReached_ZeroIsCap(cap, scraped) == cap # None /\ scraped >= cap

\* the cap test stopping one page early
CapReached_Early(cap, scraped) == cap # None /\ cap # 0 /\ scraped + 1 >= cap

\* "if self.max_pages and pages_scraped >= self.max_pages"
CapReached(cap, scraped) == cap # None /\ cap # 0 /\ scraped >= cap

Orders(S) == { o \in [1..Cardinality(S) -> S] : \A i, j \in DOMAIN o : o[i] = o[j] => i = j }

Store == [downloaded |-> downloaded_images, images |-> images,
          requested |-> requested, stored |-> stored, first |-> img_first, moved |-> img_moved]

Init ==
    /\ max_pages \in {None} \cup (0..MaxCap)
    /\ visited_urls = {}
    /\ downloaded_images = {}
    /\ urls_to_visit = <<>>
    /\ queued_urls = {}
    /\ pages_scraped = 0
    /\ pc = "start"
    /\ url = <<>>
    /\ item_page_content = <<>>
    /\ blog_post_content = <<>>
    /\ new_links = {}
    /\ anchors = {}
    /\ outcome = "none"
    /\ files = Empty
    /\ images = Empty
    /\ appended = NoHistory
    /\ fetched = NoHistory
    /\ dequeues = 0
    /\ depths = <<>>
    /\ url_depth = 0
    /\ slept = FALSE
    /\ seed_urls = <<>>
    /\ seed_i = 0
    /\ requested = NoHistory
    /\ stored = NoHistory
    /\ img_first = Empty
    /\ img_moved = {}
    /\ saved = Empty
    /\ u1 = <<>> /\ u2 = <<>> /\ r1 = <<>> /\ r2 = <<>> /\ fpc = "idle"
    /\ FlatOff

\* crawl(start_urls) up to the loop: seeds the queue
CrawlStart ==
    /\ pc = "start"
    /\ \E start_urls \in SeqsUpTo(SeedUrls, MaxSeeds) :
         \E q \in {AppendAll(start_urls, visited_urls,
                            [queue |-> urls_to_visit, queued |-> {}, log |-> appended,
                             depths |-> depths],
                            TRUE, 0)} :
             /\ urls_to_visit' = q.queue
             /\ queued_urls' = q.queued
             /\ appended' = q.log
             /\ depths' = q.depths
    /\ pages_scraped' = 0
    /\ pc' = "loop"
    /\ UNCHANGED <<max_pages, visited_urls, downloaded_images, url, item_page_content,
                       blog_post_content, new_links, anchors, outcome, files, images,
                       fetched, dequeues, url_depth, slept, seed_urls, seed_i,
                       requested, stored, img_first, img_moved, saved, fn_vars,
                       flat_vars>>

\* the loop ending with URLs still waiting in the queue
LoopExit_Early ==
    /\ pc = "loop"
    /\ pc' = "done"
    /\ UNCHANGED <<max_pages, visited_urls, downloaded_images, urls_to_visit, queued_urls,
                       pages_scraped, url, item_page_content, blog_post_content,
                       new_links, anchors, outcome, files, images, appended, fetched,
                       dequeues, depths, url_depth, slept, seed_urls, seed_i, requested,
                       stored, img_first, img_moved, saved, fn_vars, flat_vars>>

\* the while condition fails: the queue is empty
LoopExit ==
    /\ pc = "loop"
    /\ urls_to_visit = <<>>
    /\ pc' = "done"
    /\ UNCHANGED <<max_pages, visited_urls, downloaded_images, urls_to_visit, queued_urls,
                       pages_scraped, url, item_page_content, blog_post_content,
                       new_links, anchors, outcome, files, images, appended, fetched,
                       dequeues, depths, url_depth, slept, seed_urls, seed_i, requested,
                       stored, img_first, img_moved, saved, fn_vars, flat_vars>>

\* the page cap is reached: break
LoopBreak ==
    /\ pc = "loop"
    /\ urls_to_visit # <<>>
    /\ CapReached(max_pages, pages_scraped)
    /\ pc' = "done"
    /\ UNCHANGED <<max_pages, visited_urls, downloaded_images, urls_to_visit, queued_urls,
                       pages_scraped, url, item_page_content, blog_post_content,
                       new_links, anchors, outcome, files, images, appended, fetched,
                       dequeues, depths, url_depth, slept, seed_urls, seed_i, requested,
                       stored, img_first, img_moved, saved, fn_vars, flat_vars>>

\* the loop head reading urls_to_visit[0] without popleft
Dequeue_Peek ==
    /\ pc = "loop"
    /\ urls_to_visit # <<>>
    /\ ~CapReached(max_pages, pages_scraped)
    /\ url' = Head(urls_to_visit)
    /\ url_depth' = Head(depths)
    /\ dequeues' = dequeues + 1
    /\ IF Head(urls_to_visit) \in visited_urls
       THEN /\ pc' = "loop"
            /\ UNCHANGED visited_urls
       ELSE /\ visited_urls' = visited_urls \cup {Head(urls_to_visit)}
            /\ pc' = "fetch"
    /\ new_links' = {}
    /\ outcome' = "none"
    /\ saved' = Empty
    /\ UNCHANGED <<max_pages, downloaded_images, urls_to_visit, queued_urls, pages_scraped,
                       item_page_content, blog_post_content, anchors, files, images,
                       appended, fetched, depths, slept, seed_urls, seed_i, requested,
                       stored, img_first, img_moved, fn_vars, flat_vars>>

\* the loop head taking the newest entry, pop() in place of popleft()
Dequeue_Newest ==
    /\ pc = "loop"
    /\ urls_to_visit # <<>>
    /\ ~CapReached(max_pages, pages_scraped)
    /\ url' = urls_to_visit[Len(urls_to_visit)]
    /\ urls_to_visit' = Take(urls_to_visit, Len(urls_to_visit) - 1)
    /\ url_depth' = depths[Len(depths)]
    /\ depths' = Take(depths, Len(depths) - 1)
    /\ dequeues' = dequeues + 1
    /\ IF urls_to_visit[Len(urls_to_visit)] \in visited_urls
       THEN /\ pc' = "loop"
            /\ UNCHANGED visited_urls
       ELSE /\ visited_urls' = visited_urls \cup {urls_to_visit[Len(urls_to_visit)]}
            /\ pc' = "fetch"
    /\ new_links' = {}
    /\ outcome' = "none"
    /\ saved' = Empty
    /\ UNCHANGED <<max_pages, downloaded_images, queued_urls, pages_scraped,
                       item_page_content, blog_post_content, anchors, files, images,
                       appended, fetched, slept, seed_urls, seed_i, requested, stored,
                       img_first, img_moved, fn_vars, flat_vars>>

\* popleft; an already visited URL is skipped, otherwise it is marked
\* visited and handed to scrape_page.  What the previous iteration left in
\* its locals is dead from here on.
Dequeue ==
    /\ pc = "loop"
    /\ urls_to_visit # <<>>
    /\ ~CapReached(max_pages, pages_scraped)
    /\ url' = Head(urls_to_visit)
    /\ urls_to_visit' = Tail(urls_to_visit)
    /\ url_depth' = Head(depths)
    /\ depths' = Tail(depths)
    /\ dequeues' = dequeues + 1
    /\ IF Head(urls_to_visit) \in visited_urls
       THEN /\ pc' = "loop"
            /\ UNCHANGED visited_urls
       ELSE /\ visited_urls' = visited_urls \cup {Head(urls_to_visit)}
            /\ pc' = "fetch"
    /\ new_links' = {}
    /\ outcome' = "none"
    /\ saved' = Empty
    /\ UNCHANGED <<max_pages, downloaded_images, queued_urls, pages_scraped,
                       item_page_content, blog_post_content, anchors, files, images,
                       appended, fetched, slept, seed_urls, seed_i, requested, stored,
                       img_first, img_moved, fn_vars, flat_vars>>

\* a failed GET that goes on to the link extraction
FetchFail_FallThrough ==
    /\ pc = "fetch"
    /\ \E kind \in FetchFailures : outcome' = kind
    /\ fetched' = Note(fetched, url)
    /\ slept' = FALSE
    /\ new_links' = {}
    /\ pc' = "links"
    /\ UNCHANGED <<max_pages, visited_urls, downloaded_images, urls_to_visit, queued_urls,
                       pages_scraped, url, item_page_content, blog_post_content,
                       anchors, files, images, appended, dequeues, depths, url_depth,
                       seed_urls, seed_i, requested, stored, img_first, img_moved,
                       saved, fn_vars, flat_vars>>

\* a failed GET that takes the URL out of visited_urls again
FetchFail_Forget ==
    /\ pc = "fetch"
    /\ \E kind \in FetchFailures : outcome' = kind
    /\ fetched' = Note(fetched, url)
    /\ slept' = FALSE
    /\ visited_urls' = visited_urls \ {url}
    /\ new_links' = {}
    /\ pc' = "enqueue"
    /\ UNCHANGED <<max_pages, downloaded_images, urls_to_visit, queued_urls, pages_scraped,
                       url, item_page_content, blog_post_content, anchors, files,
                       images, appended, dequeues, depths, url_depth, seed_urls, seed_i,
                       requested, stored, img_first, img_moved, saved, fn_vars,
                       flat_vars>>

\* scrape_page: the GET raises, or the response is not text/html
FetchFail ==
    /\ pc = "fetch"
    /\ \E kind \in FetchFailures : outcome' = kind
    /\ fetched' = Note(fetched, url)
    /\ slept' = FALSE
    /\ new_links' = {}
    /\ pc' = "enqueue"
    /\ UNCHANGED <<max_pages, visited_urls, downloaded_images, urls_to_visit, queued_urls,
                       pages_scraped, url, item_page_content, blog_post_content,
                       anchors, files, images, appended, dequeues, depths, url_depth,
                       seed_urls, seed_i, requested, stored, img_first, img_moved,
                       saved, fn_vars, flat_vars>>

\* scrape_page: the GET returns an HTML document
FetchOk ==
    /\ pc = "fetch"
    /\ fetched' = Note(fetched, url)
    /\ slept' = FALSE
    /\ pc' = "extract"
    /\ UNCHANGED <<max_pages, visited_urls, downloaded_images, urls_to_visit, queued_urls,
                       pages_scraped, url, item_page_content, blog_post_content,
                       new_links, anchors, outcome, files, images, appended, dequeues,
                       depths, url_depth, seed_urls, seed_i, requested, stored,
                       img_first, img_moved, saved, fn_vars, flat_vars>>

\* scrape_page: extract_content over the regions of the document
ExtractContent ==
    /\ pc = "extract"
    /\ \E item \in SeqsUpTo(Regions, 1), posts \in SeqsUpTo(Regions, MaxPosts) :
         \E results \in [1..Len(Flatten(item \o posts)) -> ImgOutcomes] :
            \E e \in {extract_content(item, posts, url, Store, results)} :
                /\ item_page_content' = e.item_page_content
                /\ blog_post_content' = e.blog_post_content
                /\ downloaded_images' = e.st.downloaded
                /\ images' = e.st.images
                /\ requested' = e.st.requested
                /\ stored' = e.st.stored
                /\ img_first' = e.st.first
                /\ img_moved' = e.st.moved
    /\ pc' = "save"
    /\ UNCHANGED <<max_pages, visited_urls, urls_to_visit, queued_urls, pages_scraped, url,
                       new_links, anchors, outcome, files, appended, fetched, dequeues,
                       depths, url_depth, slept, seed_urls, seed_i, saved, fn_vars,
                       flat_vars>>

\* scrape_page: an exception leaves extract_content after n of the img
\* elements of the regions went through process_images_in_content; the
\* handler at "except Exception" returns set()
ExtractRaise ==
    /\ pc = "extract"
    /\ \E item \in SeqsUpTo(Regions, 1), posts \in SeqsUpTo(Regions, MaxPosts) :
         \E n \in 0..Len(Flatten(item \o posts)) :
            \E results \in [1..n -> ImgOutcomes] :
               \E e \in {ProcessRegions(<<Take(Flatten(item \o posts), n)>>, url,
                                        get_route_path(url), Store, results)} :
                   /\ downloaded_images' = e.st.downloaded
                   /\ images' = e.st.images
                   /\ requested' = e.st.requested
                   /\ stored' = e.st.stored
                   /\ img_first' = e.st.first
                   /\ img_moved' = e.st.moved
    /\ outcome' = "raised"
    /\ new_links' = {}
    /\ pc' = "enqueue"
    /\ UNCHANGED <<max_pages, visited_urls, urls_to_visit, queued_urls, pages_scraped, url,
                       item_page_content, blog_post_content, anchors, files, appended,
                       fetched, dequeues, depths, url_depth, slept, seed_urls, seed_i,
                       saved, fn_vars, flat_vars>>

\* scrape_page: content was found and save_content writes it
SaveContent ==
    /\ pc = "save"
    /\ item_page_content # <<>> \/ blog_post_content # <<>>
    /\ ~save_raises(url, item_page_content, blog_post_content)
    /\ \E writes \in {save_content(url, item_page_content, blog_post_content)} :
          /\ files' = WriteAll(files, writes)
          /\ saved' = Bodies(writes)
    /\ outcome' = "saved"
    /\ item_page_content' = <<>>
    /\ blog_post_content' = <<>>
    /\ pc' = "links"
    /\ UNCHANGED <<max_pages, visited_urls, downloaded_images, urls_to_visit, queued_urls,
                       pages_scraped, url, new_links, anchors, images, appended,
                       fetched, dequeues, depths, url_depth, slept, seed_urls, seed_i,
                       requested, stored, img_first, img_moved, fn_vars, flat_vars>>

\* a page without content returning set() before the link extraction
NoContent_ReturnEarly ==
    /\ pc = "save"
    /\ item_page_content = <<>> /\ blog_post_content = <<>>
    /\ outcome' = "nocontent"
    /\ \E hrefs \in { h \in SUBSET Hrefs : Cardinality(h) <= MaxLinks } :
         anchors' = hrefs
    /\ new_links' = {}
    /\ pc' = "enqueue"
    /\ UNCHANGED <<max_pages, visited_urls, downloaded_images, urls_to_visit, queued_urls,
                       pages_scraped, url, item_page_content, blog_post_content, files,
                       images, appended, fetched, dequeues, depths, url_depth, slept,
                       seed_urls, seed_i, requested, stored, img_first, img_moved,
                       saved, fn_vars, flat_vars>>

\* scrape_page: no target content found, nothing is saved
NoContent ==
    /\ pc = "save"
    /\ item_page_content = <<>> /\ blog_post_content = <<>>
    /\ outcome' = "nocontent"
    /\ pc' = "links"
    /\ UNCHANGED <<max_pages, visited_urls, downloaded_images, urls_to_visit, queued_urls,
                       pages_scraped, url, item_page_content, blog_post_content,
                       new_links, anchors, files, images, appended, fetched, dequeues,
                       depths, url_depth, slept, seed_urls, seed_i, requested, stored,
                       img_first, img_moved, saved, fn_vars, flat_vars>>

\* save_content raising with no handler in scrape_page: the crawl ends
SaveRaise_Abort ==
    /\ pc = "save"
    /\ item_page_content # <<>> \/ blog_post_content # <<>>
    /\ \E writes \in {save_content(url, item_page_content, blog_post_content)} :
          \E k \in 0..(IF save_raises(url, item_page_content, blog_post_content)
                       THEN Len(writes) ELSE Len(writes) - 1) :
             /\ files' = WriteAll(files, Take(writes, k))
             /\ saved' = Bodies(Take(writes, k))
    /\ outcome' = "raised"
    /\ new_links' = {}
    /\ item_page_content' = <<>>
    /\ blog_post_content' = <<>>
    /\ pc' = "done"
    /\ UNCHANGED <<max_pages, visited_urls, downloaded_images, urls_to_visit, queued_urls,
                       pages_scraped, url, anchors, images, appended, fetched, dequeues,
                       depths, url_depth, slept, seed_urls, seed_i, requested, stored,
                       img_first, img_moved, fn_vars, flat_vars>>

\* save_content raising with extract_links still run on the document
SaveRaise_LinksKept ==
    /\ pc = "save"
    /\ item_page_content # <<>> \/ blog_post_content # <<>>
    /\ \E writes \in {save_content(url, item_page_content, blog_post_content)} :
          \E k \in 0..(IF save_raises(url, item_page_content, blog_post_content)
                       THEN Len(writes) ELSE Len(writes) - 1) :
             /\ files' = WriteAll(files, Take(writes, k))
             /\ saved' = Bodies(Take(writes, k))
    /\ outcome' = "raised"
    /\ item_page_content' = <<>>
    /\ blog_post_content' = <<>>
    /\ pc' = "links"
    /\ UNCHANGED <<max_pages, visited_urls, downloaded_images, urls_to_visit, queued_urls,
                       pages_scraped, url, new_links, anchors, images, appended,
                       fetched, dequeues, depths, url_depth, slept, seed_urls, seed_i,
                       requested, stored, img_first, img_moved, fn_vars, flat_vars>>

\* scrape_page: save_content raises after k of its writes, by its own
\* doing after the last of them or earlier on an OSError; the handler at
\* "except Exception" returns set()
SaveRaise ==
    /\ pc = "save"
    /\ item_page_content # <<>> \/ blog_post_content # <<>>
    /\ \E writes \in {save_content(url, item_page_content, blog_post_content)} :
          \E k \in 0..(IF save_raises(url, item_page_content, blog_post_content)
                       THEN Len(writes) ELSE Len(writes) - 1) :
             /\ files' = WriteAll(files, Take(writes, k))
             /\ saved' = Bodies(Take(writes, k))
    /\ outcome' = "raised"
    /\ new_links' = {}
    /\ item_page_content' = <<>>
    /\ blog_post_content' = <<>>
    /\ pc' = "enqueue"
    /\ UNCHANGED <<max_pages, visited_urls, downloaded_images, urls_to_visit, queued_urls,
                       pages_scraped, url, anchors, images, appended, fetched, dequeues,
                       depths, url_depth, slept, seed_urls, seed_i, requested, stored,
                       img_first, img_moved, fn_vars, flat_vars>>

\* scrape_page: extract_links over the anchors of the whole document
ExtractLinks ==
    /\ pc = "links"
    /\ \E hrefs \in { h \in SUBSET Hrefs : Cardinality(h) <= MaxLinks } :
         /\ anchors' = hrefs
         /\ new_links' = extract_links(hrefs, url)
    /\ pc' = "enqueue"
    /\ UNCHANGED <<max_pages, visited_urls, downloaded_images, urls_to_visit, queued_urls,
                       pages_scraped, url, item_page_content, blog_post_content,
                       outcome, files, images, appended, fetched, dequeues, depths,
                       url_depth, slept, seed_urls, seed_i, requested, stored,
                       img_first, img_moved, saved, fn_vars, flat_vars>>

\* the end of the iteration without time.sleep(self.delay)
EnqueueLinks_NoDelay ==
    /\ pc = "enqueue"
    /\ \E order \in Orders(new_links) :
         \E q \in {AppendAll(order, visited_urls,
                            [queue |-> urls_to_visit, queued |-> queued_urls,
                             log |-> appended, depths |-> depths],
                            FALSE, url_depth + 1)} :
             /\ urls_to_visit' = q.queue
             /\ queued_urls' = q.queued
             /\ appended' = q.log
             /\ depths' = q.depths
    /\ pages_scraped' = pages_scraped + 1
    /\ anchors' = {}
    /\ pc' = "loop"
    /\ UNCHANGED <<max_pages, visited_urls, downloaded_images, url, item_page_content,
                       blog_post_content, new_links, outcome, files, images, fetched,
                       dequeues, url_depth, slept, seed_urls, seed_i, requested, stored,
                       img_first, img_moved, saved, fn_vars, flat_vars>>

\* crawl: the loop over new_links (a set, iterated in any order), the
\* count and the delay; soup went out of scope when scrape_page returned
EnqueueLinks ==
    /\ pc = "enqueue"
    /\ \E order \in Orders(new_links) :
         \E q \in {AppendAll(order, visited_urls,
                            [queue |-> urls_to_visit, queued |-> queued_urls,
                             log |-> appended, depths |-> depths],
                            FALSE, url_depth + 1)} :
             /\ urls_to_visit' = q.queue
             /\ queued_urls' = q.queued
             /\ appended' = q.log
             /\ depths' = q.depths
    /\ pages_scraped' = pages_scraped + 1
    /\ anchors' = {}
    /\ slept' = TRUE
    /\ pc' = "loop"
    /\ UNCHANGED <<max_pages, visited_urls, downloaded_images, url, item_page_content,
                       blog_post_content, new_links, outcome, files, images, fetched,
                       dequeues, url_depth, seed_urls, seed_i, requested, stored,
                       img_first, img_moved, saved, fn_vars, flat_vars>>

Next ==
    \/ CrawlStart
    \/ LoopExit
    \/ LoopBreak
    \/ Dequeue
    \/ FetchFail
    \/ FetchOk
    \/ ExtractContent
    \/ ExtractRaise
    \/ SaveContent
    \/ NoContent
    \/ SaveRaise
    \/ ExtractLinks
    \/ EnqueueLinks

Spec == Init /\ [][Next]_vars

----------------------------------------------------------------------------
(* main with --seed-only *)

SeedInit ==
    /\ Init
    /\ max_pages = None

\* main up to the for loop: "if args.seed_only"
SeedStart ==
    /\ pc = "start"
    /\ \E start_urls \in SeqsUpTo(SeedUrls, MaxSeeds) : seed_urls' = start_urls
    /\ seed_i' = 0
    /\ pc' = "seeds"
    /\ UNCHANGED <<max_pages, visited_urls, downloaded_images, urls_to_visit, queued_urls,
                       pages_scraped, url, item_page_content, blog_post_content,
                       new_links, anchors, outcome, files, images, appended, fetched,
                       dequeues, depths, url_depth, slept, requested, stored, img_first,
                       img_moved, saved, fn_vars, flat_vars>>

\* the for loop taking every seed, visited or not
SeedTake_Unchecked ==
    /\ pc = "seeds"
    /\ seed_i < Len(seed_urls)
    /\ seed_i' = seed_i + 1
    /\ url' = seed_urls[seed_i + 1]
    /\ visited_urls' = visited_urls \cup {seed_urls[seed_i + 1]}
    /\ pc' = "fetch"
    /\ new_links' = {}
    /\ outcome' = "none"
    /\ saved' = Empty
    /\ UNCHANGED <<max_pages, downloaded_images, urls_to_visit, queued_urls, pages_scraped,
                       item_page_content, blog_post_content, anchors, files, images,
                       appended, fetched, dequeues, depths, url_depth, slept, seed_urls,
                       requested, stored, img_first, img_moved, fn_vars, flat_vars>>

\* the for loop takes the next seed: one in visited_urls is passed over,
\* another is added to visited_urls, as written, and handed to scrape_page
SeedTake ==
    /\ pc = "seeds"
    /\ seed_i < Len(seed_urls)
    /\ seed_i' = seed_i + 1
    /\ IF seed_urls[seed_i + 1] \in visited_urls
       THEN /\ pc' = "seeds"
            /\ UNCHANGED <<url, visited_urls, new_links, outcome, saved>>
       ELSE /\ url' = seed_urls[seed_i + 1]
            /\ visited_urls' = visited_urls \cup {seed_urls[seed_i + 1]}
            /\ pc' = "fetch"
            /\ new_links' = {}
            /\ outcome' = "none"
            /\ saved' = Empty
    /\ UNCHANGED <<max_pages, downloaded_images, urls_to_visit, queued_urls, pages_scraped,
                       item_page_content, blog_post_content, anchors, files, images,
                       appended, fetched, dequeues, depths, url_depth, slept, seed_urls,
                       requested, stored, img_first, img_moved, fn_vars, flat_vars>>

\* scrape_page has returned, its result is dropped; time.sleep(scraper.delay)
SeedSleep ==
    /\ pc = "enqueue"
    /\ anchors' = {}
    /\ slept' = TRUE
    /\ pc' = "seeds"
    /\ UNCHANGED <<max_pages, visited_urls, downloaded_images, urls_to_visit, queued_urls,
                       pages_scraped, url, item_page_content, blog_post_content,
                       new_links, outcome, files, images, appended, fetched, dequeues,
                       depths, url_depth, seed_urls, seed_i, requested, stored,
                       img_first, img_moved, saved, fn_vars, flat_vars>>

\* the for loop is through
SeedsDone ==
    /\ pc = "seeds"
    /\ seed_i = Len(seed_urls)
    /\ pc' = "done"
    /\ UNCHANGED <<max_pages, visited_urls, downloaded_images, urls_to_visit, queued_urls,
                       pages_scraped, url, item_page_content, blog_post_content,
                       new_links, anchors, outcome, files, images, appended, fetched,
                       dequeues, depths, url_depth, slept, seed_urls, seed_i, requested,
                       stored, img_first, img_moved, saved, fn_vars, flat_vars>>

SeedNext ==
    \/ SeedStart
    \/ SeedTake
    \/ SeedsDone
    \/ FetchFail
    \/ FetchOk
    \/ ExtractContent
    \/ ExtractRaise
    \/ SaveContent
    \/ NoContent
    \/ SaveRaise
    \/ ExtractLinks
    \/ SeedSleep

SeedSpec == SeedInit /\ [][SeedNext]_vars

----------------------------------------------------------------------------
(* The URL functions applied to drawn inputs *)

\* no crawl is running
CrawlOff ==
    /\ max_pages = None
    /\ visited_urls = {}
    /\ downloaded_images = {}
    /\ urls_to_visit = <<>>
    /\ queued_urls = {}
    /\ pages_scraped = 0
    /\ pc = "off"
    /\ url = <<>>
    /\ item_page_content = <<>>
    /\ blog_post_content = <<>>
    /\ new_links = {}
    /\ anchors = {}
    /\ outcome = "none"
    /\ files = Empty
    /\ images = Empty
    /\ appended = NoHistory
    /\ fetched = NoHistory
    /\ dequeues = 0
    /\ depths = <<>>
    /\ url_depth = 0
    /\ slept = FALSE
    /\ seed_urls = <<>>
    /\ seed_i = 0
    /\ requested = NoHistory
    /\ stored = NoHistory
    /\ img_first = Empty
    /\ img_moved = {}
    /\ saved = Empty

FnInit ==
    /\ CrawlOff
    /\ FlatOff
    /\ u1 \in UrlInputs
    /\ u2 \in UrlInputs
    /\ r1 = <<>>
    /\ r2 = <<>>
    /\ fpc = "call"

\* normalize_url(u1) and normalize_url(u2)
Normalize ==
    /\ fpc = "call"
    /\ r1' = normalize_url(u1)
    /\ r2' = normalize_url(u2)
    /\ fpc' = "normalized"
    /\ UNCHANGED <<crawl_vars, u1, u2, flat_vars>>

\* get_route_path(u1) and get_route_path(u2)
Route ==
    /\ fpc = "call"
    /\ r1' = get_route_path(u1)
    /\ r2' = get_route_path(u2)
    /\ fpc' = "routed"
    /\ UNCHANGED <<crawl_vars, u1, u2, flat_vars>>

\* is_valid_url(u1) and is_valid_url(u2)
Valid ==
    /\ fpc = "call"
    /\ r1' = is_valid_url(u1)
    /\ r2' = is_valid_url(u2)
    /\ fpc' = "validated"
    /\ UNCHANGED <<crawl_vars, u1, u2, flat_vars>>

\* the extracted text of a region with n images
Content(n) == [j \in 1..n |-> [src |-> <<"/", "img", "/", "pic.png">>, orig |-> <<>>]]

\* blog_post_content with k regions, told apart by their images
Posts(k) == [i \in 1..k |-> Content(i)]

\* one call of save_content and what it does
SaveCall(page_url, item, posts) ==
    [url    |-> page_url,
     item   |-> item,
     posts  |-> posts,
     writes |-> save_content(page_url, item, posts),
     dirs   |-> MakeDirs(get_route_path(page_url), item, posts),
     raises |-> save_raises(page_url, item, posts)]

\* save_content for the CanonicalURLs of u1 and of u2, with the content
\* scrape_page passes on: an item page, blog posts or both
Save ==
    /\ fpc = "call"
    /\ \E item \in {<<>>, <<Content(0)>>}, k \in 0..MaxBlog :
          /\ item # <<>> \/ k > 0
          /\ r1' = SaveCall(normalize_url(u1), item, Posts(k))
          /\ r2' = SaveCall(normalize_url(u2), item, Posts(k))
    /\ fpc' = "saved"
    /\ UNCHANGED <<crawl_vars, u1, u2, flat_vars>>

FnNext ==
    \/ Normalize
    \/ Route
    \/ Valid
    \/ Save

FnSpec == FnInit /\ [][FnNext]_vars

----------------------------------------------------------------------------
(* extract_links applied to drawn anchors *)

LinkInit ==
    /\ CrawlOff
    /\ FlatOff
    /\ u1 \in PageUrls
    /\ u2 = <<>>
    /\ r1 = {}
    /\ r2 = {}
    /\ fpc = "page"

\* extract_links(soup, u1) for a document whose anchors carry the hrefs r1
Links ==
    /\ fpc = "page"
    /\ \E hrefs \in { h \in SUBSET HrefInputs : Cardinality(h) <= MaxLinks } :
          /\ r1' = hrefs
          /\ r2' = extract_links(hrefs, u1)
    /\ fpc' = "linked"
    /\ UNCHANGED <<crawl_vars, u1, u2, flat_vars>>

LinkNext == Links

LinkSpec == LinkInit /\ [][LinkNext]_vars

----------------------------------------------------------------------------
(* process_images_in_content applied to drawn regions *)

ImgInit ==
    /\ CrawlOff
    /\ FlatOff
    /\ u1 \in PageUrls
    /\ u2 = <<>>
    /\ r1 = <<>>
    /\ r2 = <<>>
    /\ fpc = "region"

\* process_images_in_content(soup, u1, page_route) for a region with the
\* img elements soup, downloaded_images holding known
ProcessImages ==
    /\ fpc = "region"
    /\ \E soup \in SeqsUpTo(ImgInputs, MaxImgs) :
         \E results \in [1..Len(soup) -> GetOutcomes],
            known \in {{}, { urljoin(u1, s) : s \in ImgSrcs }} :
             /\ r1' = [soup |-> soup, results |-> results, known |-> known]
             /\ r2' = process_images_in_content(soup, u1, get_route_path(u1),
                                                [Store EXCEPT !.downloaded = known],
                                                results)
    /\ fpc' = "processed"
    /\ UNCHANGED <<crawl_vars, u1, u2, flat_vars>>

\* download_image(img_url, page_route) with downloaded_images holding known
DownloadImage ==
    /\ fpc = "region"
    /\ \E img_url \in AssetInputs(u1), result \in GetOutcomes, known \in KnownSets :
          /\ r1' = [img_url |-> img_url, result |-> result, known |-> known]
          /\ r2' = download_image([Store EXCEPT !.downloaded = known], img_url,
                                  get_route_path(u1), result)
    /\ fpc' = "downloaded"
    /\ UNCHANGED <<crawl_vars, u1, u2, flat_vars>>

ImgNext ==
    \/ ProcessImages
    \/ DownloadImage

ImgSpec == ImgInit /\ [][ImgNext]_vars

----------------------------------------------------------------------------
(* Claims *)

Range(s) == { s[i] : i \in DOMAIN s }

\* the iteration of the crawl loop for url is past its scrape_page call
Returned == pc \in {"enqueue", "loop", "done"} /\ url # <<>>

\* the text of a URL before its fragment
BeforeFragment(u) ==
    LET i == Find(u, "#", 1) IN IF i > 0 THEN Take(u, i - 1) ELSE u

FragmentOf(u) ==
    LET i == Find(u, "#", 1) IN IF i > 0 THEN Drop(u, i - 1) ELSE <<>>

DifferOnlyByFragment(a, b) == BeforeFragment(a) = BeforeFragment(b)

\* one of the two has one more "/" at the end of the text before the fragment
DifferOnlyByTrailingSlash(a, b) ==
    /\ FragmentOf(a) = FragmentOf(b)
    /\ \/ BeforeFragment(a) = BeforeFragment(b) \o <<"/">>
       \/ BeforeFragment(b) = BeforeFragment(a) \o <<"/">>

\* C1: every CanonicalURL is appended to the frontier queue at most once and
\* fetched at most once, whatever raw seeds and links normalise to it, and
\* no URL of the visited set sits in the queue or is appended again.
C1_OneAppendOneFetch ==
    /\ appended.again = {}
    /\ fetched.again = {}
    /\ visited_urls \subseteq appended.once
    /\ Range(urls_to_visit) \cap visited_urls = {}

\* a second URL normalising to an already visited CanonicalURL was offered
C1_Witness ==
    /\ pc = "loop"
    /\ new_links \cap visited_urls # {}
    /\ new_links \cap fetched.once # {}

\* C2 (as claimed): no asset URL is requested by download_image twice.
C2_OneGetPerAsset == requested.again = {}

\* C2 (amended): no asset URL is written to disk and indexed twice; only a
\* GET that failed or returned a non-image is repeated by a later reference.
C2_OneStorePerAsset ==
    /\ stored.again = {}
    /\ stored.once = downloaded_images
    /\ \A a \in requested.again : a \notin stored.again

\* an asset was requested again after a failed request and then stored
C2_Witness ==
    \E a \in requested.again : a \in stored.once

\* C3: every call of download_image for an asset URL after the first
\* successful one returns the path returned by the first.
C3_SamePathForAllReferences == img_moved = {}

\* C4: each stored asset has exactly one image file, and every rewritten
\* image reference of a persisted page names a path holding an image file.
C4_NoDanglingReference ==
    /\ \A a \in stored.once : Cardinality({ p \in DOMAIN images : images[p] = a }) = 1
    /\ \A p \in DOMAIN saved : \A i \in DOMAIN saved[p] :
          saved[p][i].orig # <<>> => Join(OUTPUT_DIR, saved[p][i].src) \in DOMAIN images

\* the link graph is finite: a CanonicalURL is a seed or comes from an href
GraphSize == Cardinality(SeedUrls) + Cardinality(Hrefs)

PcRank ==
    CASE pc = "done" -> 0
      [] pc = "loop" -> 1
      [] pc = "enqueue" -> 2
      [] pc = "links" -> 3
      [] pc = "save" -> 4
      [] pc = "extract" -> 5
      [] pc = "fetch" -> 6
      [] OTHER -> 7

\* pages left to visit, then the position in the iteration, then the queue
Variant ==
    LET B == GraphSize + 1
    IN  (GraphSize - Cardinality(visited_urls)) * 8 * B + PcRank * B + Len(urls_to_visit)

\* the loop head and the steps of an iteration can always act: the crawl
\* stops nowhere but at "done" (at "save" the step is chosen by the content
\* test of scrape_page, which has an else branch)
CanStep ==
    /\ pc = "start" => ENABLED CrawlStart
    /\ pc = "loop" => ENABLED (LoopExit \/ LoopBreak \/ Dequeue)
    /\ pc = "fetch" => ENABLED (FetchOk \/ FetchFail)
    /\ pc = "extract" => ENABLED ExtractContent
    /\ pc = "links" => ENABLED ExtractLinks
    /\ pc = "enqueue" => ENABLED EnqueueLinks

\* C5: the crawl terminates on every finite link graph whatever the fetches
\* return: every step of the crawl lowers Variant, a natural number, and a
\* step is possible until the crawl is done; it ends only with an empty
\* queue or the page cap reached; and it never fetches more often than there
\* are distinct CanonicalURLs among the seeds and the discovered links.
C5_Terminates ==
    /\ [][Variant' < Variant]_vars
    /\ [](Variant >= 0 /\ Cardinality(visited_urls) <= GraphSize)
    /\ []CanStep
    /\ [](pc = "done" =>
            \/ urls_to_visit = <<>>
            \/ (max_pages >= 1 /\ pages_scraped >= max_pages))
    /\ [](/\ fetched.again = {}
          /\ Cardinality(fetched.once) <= Cardinality(appended.once))

\* the crawl ended on an empty queue after a page linked back to a visited one
C5_Witness ==
    /\ pc = "done"
    /\ urls_to_visit = <<>>
    /\ Cardinality(visited_urls) >= 2
    /\ new_links \cap visited_urls # {}

\* C6: with a page cap N >= 1 and more than N URLs in the frontier, the
\* crawl stops after exactly N dequeues with exactly N URLs fetched and
\* visited, and no URL left in the queue has been fetched.
C6_StopsAtCap ==
    (pc = "done" /\ max_pages >= 1 /\ urls_to_visit # <<>>) =>
        /\ dequeues = max_pages
        /\ Cardinality(fetched.once) = max_pages
        /\ fetched.again = {}
        /\ Cardinality(visited_urls) = max_pages
        /\ Range(urls_to_visit) \cap (fetched.once \cup visited_urls) = {}

C6_Witness ==
    /\ pc = "done"
    /\ max_pages = MaxCap
    /\ urls_to_visit # <<>>
    /\ Cardinality(appended.once) > max_pages

\* C7: after a failed fetch nothing is persisted for the URL, the page
\* contributes no links, the URL is visited and fetched exactly once, and
\* the crawl goes on with the loop (the step after the failure leaves the
\* queue as it was and returns to the loop head).
C7_FailedFetch ==
    /\ [](outcome \in FetchFailures =>
            /\ Returned
            /\ saved = Empty
            /\ \A p \in DOMAIN files : files[p].source # url
            /\ new_links = {}
            /\ url \in visited_urls
            /\ url \in fetched.once /\ url \notin fetched.again)
    /\ [][(outcome \in FetchFailures /\ pc = "enqueue") =>
            (pc' = "loop" /\ urls_to_visit' = urls_to_visit)]_vars

\* a fetch failed and the crawl dequeued the next URL afterwards
C7_Witness ==
    /\ outcome \in FetchFailures
    /\ pc = "loop"
    /\ urls_to_visit # <<>>

\* C8: a fetched HTML page without any content region writes no content
\* file, and every in-scope link of its anchors is returned by scrape_page
\* and, once the loop over new_links is through, visited or queued.
C8_NoContentStillLinks ==
    outcome = "nocontent" =>
        /\ saved = Empty
        /\ \A p \in DOMAIN files : files[p].source # url
        /\ pc = "enqueue" =>
              new_links = { u \in { Resolved(a, url) : a \in { h \in anchors : ~SkippedHref(h) } } :
                              is_valid_url(u) }
        /\ pc \in {"loop", "done"} =>
              new_links \subseteq visited_urls \cup Range(urls_to_visit)

\* a page without content brought a link that was then queued
C8_Witness ==
    /\ outcome = "nocontent"
    /\ pc = "loop"
    /\ new_links \cap Range(urls_to_visit) # {}

\* C9: no URL that is_valid_url rejects is in the frontier queue or fetched.
C9_OnlyInScope ==
    \A u \in Range(urls_to_visit) \cup fetched.once : is_valid_url(u)

\* C10: URLs that differ only by their fragment or by a trailing slash have
\* the same normalize_url.
C10_NormalizeIdentifies ==
    (fpc = "normalized"
       /\ (DifferOnlyByFragment(u1, u2) \/ DifferOnlyByTrailingSlash(u1, u2)))
    => r1 = r2

----------------------------------------------------------------------------
(* C11: URLs leave urls_to_visit in the order in which they entered it:
   every step either leaves the queue alone, or removes its first entry and
   makes it the current URL, or adds entries behind the ones it holds.  The
   traversal is therefore breadth-first: the entries of the queue are in
   non-decreasing link distance from the seeds, none is nearer than the
   current page or more than one link farther, and from one fetched page to
   the next the link distance never decreases. *)
IsPrefix(s, t) == Len(s) <= Len(t) /\ Take(t, Len(s)) = s

NonDecreasing(s) == \A i, j \in DOMAIN s : i <= j => s[i] <= s[j]

QueueStep ==
    \/ urls_to_visit' = urls_to_visit /\ depths' = depths /\ url_depth' = url_depth
    \/ /\ urls_to_visit # <<>>
       /\ url' = Head(urls_to_visit)
       /\ urls_to_visit' = Tail(urls_to_visit)
       /\ url_depth' >= url_depth
    \/ /\ IsPrefix(urls_to_visit, urls_to_visit')
       /\ url' = url
       /\ url_depth' = url_depth

C11_FifoBreadthFirst ==
    /\ [][QueueStep]_vars
    /\ [](/\ Len(depths) = Len(urls_to_visit)
          /\ NonDecreasing(depths)
          /\ \A i \in DOMAIN depths : url_depth <= depths[i] /\ depths[i] <= url_depth + 1)

\* a seed is fetched after another page while a link found on that page
\* waits behind it, and that link is fetched in its turn
C11_Witness ==
    /\ pc = "fetch"
    /\ url_depth = 1
    /\ dequeues >= 3
    /\ Cardinality(visited_urls) = 3

----------------------------------------------------------------------------
(* C12: visited_urls only grows, no step removes a URL from it; the URL
   handed to scrape_page is in visited_urls while its GET has not yet been
   issued, and it stays there when the GET fails as when it succeeds. *)
C12_VisitedOnlyGrows ==
    /\ [][visited_urls \subseteq visited_urls']_vars
    /\ [][fetched' # fetched => url \in visited_urls /\ url \in visited_urls']_vars
    /\ [](pc = "fetch" => url \in visited_urls /\ url \notin fetched.once)
    /\ [](fetched.once \subseteq visited_urls)

\* a fetch that left no file was followed by a successful GET, and both
\* URLs are visited
C12_Witness ==
    /\ pc = "extract"
    /\ Cardinality(fetched.once) = 2
    /\ fetched.once \subseteq visited_urls
    /\ \E u \in fetched.once : u # url /\ \A p \in DOMAIN files : files[p].source # u

----------------------------------------------------------------------------
\* C13 (as claimed): queued_urls is exactly the set of the URLs now in
\* urls_to_visit, and no URL is in both queued_urls and visited_urls.
C13_QueuedIsFrontier ==
    /\ queued_urls = Range(urls_to_visit)
    /\ queued_urls \cap visited_urls = {}

\* C13 (amended): queued_urls is the set of all URLs appended to
\* urls_to_visit since crawl was called, a dequeued URL stays in it; it is
\* the disjoint union of the URLs now in urls_to_visit and visited_urls.
C13_QueuedIsEverQueued ==
    /\ queued_urls = appended.once
    /\ queued_urls = Range(urls_to_visit) \cup visited_urls
    /\ Range(urls_to_visit) \cap visited_urls = {}

\* a URL was dequeued and is still in queued_urls while others wait
C13_Witness ==
    /\ pc = "loop"
    /\ urls_to_visit # <<>>
    /\ visited_urls # {}
    /\ visited_urls \subseteq queued_urls
    /\ queued_urls # Range(urls_to_visit)

----------------------------------------------------------------------------
WrittenPaths(call) == { call.writes[i].path : i \in DOMAIN call.writes }

\* C14: the files save_content writes for two distinct CanonicalURLs that
\* is_valid_url accepts are disjoint, and no path written as a file by one
\* of the two calls is handed to os.makedirs by either.
C14_CollisionFree ==
    (/\ fpc = "saved"
     /\ r1.url # r2.url
     /\ is_valid_url(r1.url) /\ is_valid_url(r2.url))
    => /\ WrittenPaths(r1) \cap WrittenPaths(r2) = {}
       /\ (WrittenPaths(r1) \cup WrittenPaths(r2))
             \cap (Range(r1.dirs) \cup Range(r2.dirs)) = {}

\* the path claimed for the item page of a call
ItemPath(base) ==
    IF LeafFile(base) THEN base ELSE Join(base, <<"item-page.html">>)

\* save_content wrote body under path as a file of the given kind
Wrote(call, path, kind, body) ==
    \E i \in DOMAIN call.writes :
        /\ call.writes[i].path = path
        /\ call.writes[i].kind = kind
        /\ call.writes[i].body = body

\* C15: save_content writes the item page at the route when the route ends
\* in .html and as item-page.html in the directory of the route otherwise,
\* and writes the k blog posts as blogpost-1 .. blogpost-k in the directory
\* of the route, in their order, whatever else it writes.
C15_SaveLayout ==
    fpc = "saved" =>
        /\ r1.item # <<>> =>
              Wrote(r1, ItemPath(Join(OUTPUT_DIR, get_route_path(r1.url))),
                    "item-page", r1.item[1])
        /\ \A i \in DOMAIN r1.posts :
              Wrote(r1, Join(Join(OUTPUT_DIR, get_route_path(r1.url)), <<BlogTok(i)>>),
                    "blogpost", r1.posts[i])
        /\ Len(r1.writes) = Len(r1.item) + Len(r1.posts)

----------------------------------------------------------------------------
Slashes(n) == [i \in 1..n |-> "/"]

\* r is p without its leading and trailing slashes
IsStrippedOf(r, p) ==
    /\ r = <<>> \/ (r[1] # "/" /\ r[Len(r)] # "/")
    /\ \E i, j \in 0..Len(p) : p = Slashes(i) \o r \o Slashes(j)

\* C16: get_route_path returns a result for every URL; the result is the
\* same for URLs with the same path; it is "index" when the path without
\* its leading and trailing slashes is empty, and that stripped path, which
\* is then not empty, otherwise.
C16_RouteOfPath ==
    fpc = "routed" =>
        /\ urlparse(u1).path = urlparse(u2).path => r1 = r2
        /\ IF IsStrippedOf(<<>>, urlparse(u1).path)
           THEN r1 = <<"index">>
           ELSE r1 # <<>> /\ IsStrippedOf(r1, urlparse(u1).path)

\* two URLs differing outside their path have one route, from which
\* slashes of the path were stripped
C16_Witness ==
    /\ fpc = "routed"
    /\ u1 # u2
    /\ urlparse(u1).path = urlparse(u2).path
    /\ r1 = r2
    /\ r1 # <<"index">>
    /\ Len(urlparse(u1).path) > Len(r1) + 1

----------------------------------------------------------------------------
\* C17: is_valid_url returns true only for a URL whose host is one of the
\* two site hosts, whose path does not end in an excluded extension and
\* does not begin with an excluded prefix.
C17_ValidOnlyInSite ==
    (fpc = "validated" /\ r1 = TRUE) =>
        /\ urlparse(u1).netloc \in SiteHosts
        /\ \/ urlparse(u1).path = <<>>
           \/ Lower(urlparse(u1).path)[Len(urlparse(u1).path)] \notin SkipExtToks
        /\ ~(/\ Len(urlparse(u1).path) >= 2
             /\ urlparse(u1).path[1] = "/"
             /\ urlparse(u1).path[2] \in SkipPathToks)

----------------------------------------------------------------------------
\* a and b are the same URL but for the letter case of their host
DifferOnlyByHostCase(a, b) ==
    /\ urlparse(a).netloc # urlparse(b).netloc
    /\ Lower(urlparse(a).netloc) = Lower(urlparse(b).netloc)
    /\ [urlparse(a) EXCEPT !.netloc = <<>>] = [urlparse(b) EXCEPT !.netloc = <<>>]

\* C18: normalize_url returns the scheme and the host in lower case, the
\* path in the case it came in, without fragment and trailing slash; two
\* URLs that differ only in the letter case of their host have the same
\* normalize_url.
C18_NormalizeLowersHost ==
    fpc = "normalized" =>
        /\ urlparse(r1).scheme = Lower(urlparse(u1).scheme)
        /\ urlparse(r1).netloc = Lower(urlparse(u1).netloc)
        /\ DifferOnlyByHostCase(u1, u2) => r1 = r2

----------------------------------------------------------------------------
\* the href is javascript:, mailto: or starts with "#"
Discarded(href) ==
    \/ href[1] = "#"
    \/ Len(href) >= 2 /\ href[1] \in {"javascript", "mailto"} /\ href[2] = ":"

\* C19: every element of the result of extract_links is the normalize_url of
\* the urljoin of the page URL with an href that is not javascript:, mailto:
\* or a pure fragment, carries no fragment and is accepted by is_valid_url;
\* every such href whose CanonicalURL is_valid_url accepts is in the result;
\* an href with a fragment gives the CanonicalURL of the href without it.
C19_ExtractLinks ==
    fpc = "linked" =>
        /\ \A u \in r2 :
              /\ is_valid_url(u)
              /\ Find(u, "#", 1) = 0
              /\ \E h \in r1 : ~Discarded(h) /\ u = normalize_url(urljoin(u1, h))
        /\ \A h \in r1 :
              ~Discarded(h) =>
                 /\ is_valid_url(normalize_url(urljoin(u1, h)))
                       => normalize_url(urljoin(u1, h)) \in r2
                 /\ normalize_url(urljoin(u1, BeforeFragment(h)))
                       = normalize_url(urljoin(u1, h))
        /\ Cardinality(r2) <= Cardinality({ h \in r1 : ~Discarded(h) })

\* an href with a fragment and the same href without it gave one link
C19_Witness ==
    /\ fpc = "linked"
    /\ \E h \in r1 : BeforeFragment(h) # h /\ BeforeFragment(h) \in r1
    /\ Cardinality(r1) = 2
    /\ Cardinality(r2) = 1

----------------------------------------------------------------------------
\* C20: for each img element of a region, when download_image returned a
\* local path the src of the element is that path and its
\* data-original-src the absolute URL of the image, and when it returned
\* None the element is as it was: its src as written, no data-original-src.
C20_ImageRewrite ==
    fpc = "processed" =>
        /\ Len(r2.content) = Len(r1.soup)
        /\ Len(r2.rets) = Len(r1.soup)
        /\ \A i \in DOMAIN r1.soup :
              IF r2.rets[i] # <<>>
              THEN /\ r2.content[i].src = r2.rets[i][1]
                   /\ r2.content[i].orig = urljoin(u1, r1.soup[i])
              ELSE /\ r2.content[i].src = r1.soup[i]
                   /\ r2.content[i].orig = <<>>

\* of two img elements of a region with a relative src, one was rewritten
\* and the other left as it was
C20_Witness ==
    /\ fpc = "processed"
    /\ Len(r1.soup) = 2
    /\ r1.soup[1] = <<"img", "/", "pic.png">>
    /\ r2.rets[1] # <<>>
    /\ r2.content[1].orig # r1.soup[1]
    /\ r1.soup[2] # <<>>
    /\ r2.rets[2] = <<>>
    /\ r2.content[2].src = r1.soup[2]

----------------------------------------------------------------------------
\* the asset URL with "https:" put before a leading "//"
Absolute(img_url) ==
    IF Len(img_url) >= 2 /\ img_url[1] = "/" /\ img_url[2] = "/"
    THEN <<"https", ":">> \o img_url ELSE img_url

IsDataUrl(img_url) == Len(img_url) >= 2 /\ img_url[1] = "data" /\ img_url[2] = ":"

\* C21: download_image returns None, writes no file and adds nothing to
\* downloaded_images for a data: URL, for which it issues no GET either,
\* and for an asset not in downloaded_images whose GET raises or answers
\* with a content type that is no image; the lookup in downloaded_images
\* and the GET are made for the URL with "https:" before a leading "//".
C21_NoDownload ==
    fpc = "downloaded" =>
        /\ IsDataUrl(r1.img_url) =>
              /\ r2.ret = <<>>
              /\ r2.st = [Store EXCEPT !.downloaded = r1.known]
        /\ (/\ ~IsDataUrl(r1.img_url)
            /\ Absolute(r1.img_url) \notin r1.known
            /\ r1.result \in {"reqerr", "nonimage"}) =>
              /\ r2.ret = <<>>
              /\ r2.st.images = Empty
              /\ r2.st.downloaded = r1.known
              /\ r2.st.stored = NoHistory
        /\ Absolute(r1.img_url) \in r1.known =>
              /\ r2.ret # <<>>
              /\ r2.st.requested = NoHistory
        /\ r2.st.requested.once \subseteq {Absolute(r1.img_url)}
        /\ r2.st.downloaded \subseteq r1.known \cup {Absolute(r1.img_url)}

\* a "//host/..." URL was requested under its https form and the answer
\* was no image
C21_Witness ==
    /\ fpc = "downloaded"
    /\ Absolute(r1.img_url) # r1.img_url
    /\ r1.result = "nonimage"
    /\ r2.ret = <<>>
    /\ r2.st.requested.once = {Absolute(r1.img_url)}
    /\ r2.st.downloaded = {}

----------------------------------------------------------------------------
(* C22: when save_content raises, the page keeps the files written before
   the error and the crawl goes on: the URL stays in visited_urls, the
   iteration ends as every other does, the next entry of urls_to_visit can
   be dequeued, and the crawl is over only with an empty queue or a
   reached cap. *)
C22_SaveErrorKeepsCrawling ==
    /\ [](outcome = "raised" =>
            /\ url \in visited_urls
            /\ pc \in {"enqueue", "loop", "done"}
            /\ \A p \in DOMAIN saved : p \in DOMAIN files /\ files[p].source = url)
    /\ [][outcome = "raised" /\ pc = "enqueue"
            => pc' = "loop" /\ pages_scraped' = pages_scraped + 1]_vars
    /\ []((/\ outcome = "raised"
           /\ pc = "loop"
           /\ urls_to_visit # <<>>
           /\ ~CapReached(max_pages, pages_scraped)) => ENABLED Dequeue)
    /\ []((outcome = "raised" /\ pc = "done") =>
            urls_to_visit = <<>> \/ CapReached(max_pages, pages_scraped))

\* save_content raised after its first write and the loop is about to
\* dequeue the next URL
C22_Witness ==
    /\ outcome = "raised"
    /\ saved # Empty
    /\ pc = "loop"
    /\ urls_to_visit # <<>>
    /\ ~CapReached(max_pages, pages_scraped)

----------------------------------------------------------------------------
\* C23: every fetched HTML document yields a primary region: once
\* extract_content has returned, item_page_content holds a region.
C23_AlwaysPrimaryRegion ==
    pc = "save" => Len(item_page_content) = 1

----------------------------------------------------------------------------
(* C24: with --seed-only nothing is ever put into urls_to_visit or
   queued_urls; every URL handed to scrape_page is the entry of seed_urls
   the for loop has just taken; no URL is fetched twice; visited_urls holds
   the seeds taken so far and nothing else, whatever links scrape_page
   returned. *)
C24_SeedsOnly ==
    /\ [](/\ urls_to_visit = <<>>
          /\ queued_urls = {}
          /\ appended = NoHistory
          /\ dequeues = 0)
    /\ [](/\ fetched.again = {}
          /\ fetched.once \subseteq Range(seed_urls)
          /\ visited_urls = { seed_urls[i] : i \in 1..seed_i })
    /\ [][fetched' # fetched => seed_i >= 1 /\ url = seed_urls[seed_i]]_vars

\* both seeds are done, the last page brought a link that is no seed, and
\* that link was never fetched
C24_Witness ==
    /\ pc = "done"
    /\ Len(seed_urls) = 2
    /\ Cardinality(fetched.once) = 2
    /\ \E u \in new_links : u \notin Range(seed_urls) /\ u \notin fetched.once

----------------------------------------------------------------------------
(* C25: pages_scraped, the count crawl reports, is the number of URLs handed
   to scrape_page; no dequeued URL is in visited_urls already, so between
   iterations and at the end the count equals the number of dequeues and
   the size of visited_urls, and within an iteration it is one behind. *)
C25_ReportedCount ==
    /\ [][dequeues' # dequeues => Head(urls_to_visit) \notin visited_urls]_vars
    /\ [](/\ dequeues = Cardinality(visited_urls)
          /\ pc \in {"start", "loop", "done"} =>
                /\ pages_scraped = dequeues
                /\ pages_scraped = Cardinality(fetched.once)
          /\ pc \in {"fetch", "extract", "save", "links", "enqueue"} =>
                pages_scraped + 1 = dequeues)

\* a crawl without cap ended after three pages, one of them not fetched
\* with success
C25_Witness ==
    /\ pc = "done"
    /\ max_pages = None
    /\ pages_scraped = 3
    /\ Cardinality(visited_urls) = 3
    /\ Cardinality({ files[p].source : p \in DOMAIN files }) < 3

----------------------------------------------------------------------------
(* C26: one URL is handled at a time: a URL is dequeued only at the loop
   head, when scrape_page has returned for the URL before it, whose GET was
   issued and whose regions and anchors are out of scope; and between the
   GET of one page and the GET of the next time.sleep(self.delay) has
   returned. *)
C26_SequentialPolite ==
    /\ [][dequeues' # dequeues =>
            /\ pc = "loop"
            /\ item_page_content = <<>> /\ blog_post_content = <<>> /\ anchors = {}
            /\ url # <<>> => url \in fetched.once]_vars
    /\ [][fetched' # fetched => fetched = NoHistory \/ slept]_vars
    /\ [](pc = "loop" /\ dequeues > 0 => slept)

\* the second page of a crawl is about to be fetched, after the delay
C26_Witness ==
    /\ pc = "fetch"
    /\ dequeues = 2
    /\ slept
    /\ Cardinality(fetched.once) = 1

----------------------------------------------------------------------------
\* C27: every file save_content writes, the item page and each blog post,
\* holds three parts in this order: the comment line "Source" with the URL
\* of the page, the comment line "Scraped" with the time of the write, and
\* the extracted markup of the region.
C27_Provenance ==
    fpc = "saved" =>
        /\ r1.writes # <<>>
        /\ \A i \in DOMAIN r1.writes :
              /\ Len(r1.writes[i].text) = 3
              /\ r1.writes[i].text[1] = <<"<!-- Source: ">> \o r1.url \o <<" -->">>
              /\ Len(r1.writes[i].text[2]) = 3
              /\ r1.writes[i].text[2][1] = "<!-- Scraped: "
              /\ r1.writes[i].text[2][3] = " -->"
              /\ r1.writes[i].text[3] = r1.writes[i].body
              /\ r1.writes[i].body \in Range(r1.item) \cup Range(r1.posts)

\* an item page and two blog posts were written for one page
C27_Witness ==
    /\ fpc = "saved"
    /\ Len(r1.writes) = 3
    /\ r1.writes[1].kind = "item-page"
    /\ r1.writes[3].kind = "blogpost"
    /\ r1.writes[3].text[3] = r1.posts[2]

----------------------------------------------------------------------------
\* the directory images/<page_route> under the output directory
ImageDir(page_url) == Join(Join(OUTPUT_DIR, <<"images">>), get_route_path(page_url))

\* the path download_image writes the asset of a page to
AssetPath(asset, page_url) == get_image_local_path(asset, get_route_path(page_url))[1]

\* there is a file at the path of the asset, which is under the images
\* directory of the page
HasFileUnder(st, asset, page_url) ==
    /\ AssetPath(asset, page_url) \in DOMAIN st.images
    /\ StartsWith(AssetPath(asset, page_url), ImageDir(page_url) \o <<"/">>)

(* C28: for an asset URL in downloaded_images download_image returns a path
   without a GET and without writing a file; an asset URL enters
   downloaded_images only in a call whose GET answered with an image and
   whose bytes were written, and the file is then under images/<route of
   the page of that call>; so every asset URL a call or a region adds to
   downloaded_images has its file under the images directory of the page. *)
C28_IndexBeforeGet ==
    /\ fpc = "downloaded" =>
          /\ Absolute(r1.img_url) \in r1.known =>
                /\ r2.ret # <<>>
                /\ r2.st.requested = NoHistory
                /\ r2.st.images = Empty
                /\ r2.st.downloaded = r1.known
          /\ Absolute(r1.img_url) \in r2.st.downloaded \ r1.known =>
                /\ r1.result = "ok"
                /\ r2.st.requested.once = {Absolute(r1.img_url)}
                /\ HasFileUnder(r2.st, Absolute(r1.img_url), u1)
                /\ r2.st.images[AssetPath(Absolute(r1.img_url), u1)] = Absolute(r1.img_url)
                /\ r2.ret = <<Drop(CHOOSE p \in DOMAIN r2.st.images : TRUE,
                                   Len(OUTPUT_DIR) + 1)>>
          /\ r1.result # "ok" => r2.st.downloaded = r1.known
    /\ fpc = "processed" =>
          /\ \A a \in r2.st.downloaded \ r1.known : HasFileUnder(r2.st, a, u1)
          /\ r2.st.stored.again = {}
          /\ r2.st.stored.once = r2.st.downloaded \ r1.known
          /\ r2.st.requested.once \cap r1.known = {}

\* the first img element of a region was downloaded and the second, with
\* the same URL, was served from downloaded_images
C28_Witness ==
    /\ fpc = "processed"
    /\ r1.known = {}
    /\ Len(r1.soup) = 2
    /\ r1.soup[1] = r1.soup[2]
    /\ r2.rets[1] # <<>>
    /\ r2.rets[2] = r2.rets[1]
    /\ r2.st.requested.again = {}
    /\ Cardinality(DOMAIN r2.st.images) = 1

----------------------------------------------------------------------------
\* "if self.max_pages" is false: crawl() runs without a page cap
Uncapped == max_pages = None \/ max_pages = 0

(* C29: crawl() puts the normalized start URLs, and nothing else, into the
   queue; each iteration adds exactly the links scrape_page returned for the
   URL it marked visited (the empty set for a page that failed); nothing
   else ever enters the queue, every visited URL came out of the queue, and
   when crawl() ends without a page cap the queue is empty, so the visited
   set is the set of all URLs queued: the least set that holds the
   normalized seeds and is closed under the returned links. *)
C29_VisitedIsClosure ==
    [][ /\ pc = "start" =>
              \E start_urls \in SeqsUpTo(SeedUrls, MaxSeeds) :
                  /\ queued_urls' = { normalize_url(s) : s \in Range(start_urls) }
                  /\ Range(urls_to_visit') = queued_urls'
        /\ pc = "enqueue" =>
              /\ url \in visited_urls
              /\ queued_urls' = queued_urls \cup new_links
              /\ Range(urls_to_visit') = Range(urls_to_visit) \cup (new_links \ queued_urls)
        /\ pc \notin {"start", "enqueue"} =>
              /\ queued_urls' = queued_urls
              /\ Range(urls_to_visit') \subseteq Range(urls_to_visit)
              /\ visited_urls' \subseteq visited_urls \cup Range(urls_to_visit)
        /\ visited_urls' \subseteq queued_urls'
        /\ (pc' = "done" /\ Uncapped) =>
              /\ urls_to_visit' = <<>>
              /\ visited_urls' = queued_urls'
      ]_vars

\* a crawl without a cap ended with three visited URLs, the last of them
\* reached through a link of a page
C29_Witness ==
    /\ pc = "done"
    /\ max_pages = None
    /\ urls_to_visit = <<>>
    /\ Cardinality(visited_urls) = 3
    /\ visited_urls = queued_urls
    /\ url_depth = 1

----------------------------------------------------------------------------
(* C30: when the handler at "except Exception" ended scrape_page, for an
   exception of extract_content, of the image processing or of save_content,
   the links returned are the empty set: the iteration leaves the queue and
   the queued set as they were, the URL is in the visited set, and no URL is
   ever fetched a second time. *)
C30_RaisedReturnsNoLinks ==
    [][ /\ (pc = "enqueue" /\ outcome = "raised") =>
              /\ new_links = {}
              /\ url \in visited_urls
              /\ url \in fetched.once
              /\ urls_to_visit' = urls_to_visit
              /\ queued_urls' = queued_urls
              /\ visited_urls' = visited_urls
        /\ (pc' = "enqueue" /\ outcome' = "raised") => pc \in {"extract", "save"}
        /\ fetched'.again = {}
      ]_vars

\* an exception ended scrape_page after an image of the page was stored and
\* before a file of the page was written, with links waiting in the queue
C30_Witness ==
    /\ pc = "enqueue"
    /\ outcome = "raised"
    /\ new_links = {}
    /\ saved = Empty
    /\ downloaded_images # {}
    /\ urls_to_visit # <<>>

----------------------------------------------------------------------------
\* C31: the assets a region of a page got downloaded have pairwise different
\* local paths, and the file at the path of each holds the bytes of that
\* asset: no download overwrote the file of another asset URL.
C31_NoOverwrite ==
    fpc = "processed" =>
        \A a \in r2.st.stored.once :
            /\ r2.st.images[AssetPath(a, u1)] = a
            /\ \A b \in r2.st.stored.once : a # b => AssetPath(a, u1) # AssetPath(b, u1)

----------------------------------------------------------------------------
\* C32: normalize_url is idempotent: what it returns is a fixed point of it.
C32_NormalizeIdempotent ==
    fpc = "normalized" =>
        /\ normalize_url(r1) = r1
        /\ normalize_url(r2) = r2

----------------------------------------------------------------------------
(* C33: with max_pages = 0 the cap test of the loop head is never true:
   while urls_to_visit holds a URL the loop takes its first entry and never
   breaks, whatever pages_scraped is, and crawl() ends only with
   urls_to_visit empty, as it does with max_pages = None. *)
C33_ZeroIsNoCap ==
    [][ max_pages = 0 =>
          /\ (pc = "loop" /\ urls_to_visit # <<>>) =>
                /\ pc' \in {"loop", "fetch"}
                /\ url' = Head(urls_to_visit)
                /\ urls_to_visit' = Tail(urls_to_visit)
          /\ pc' = "done" => (pc = "loop" /\ urls_to_visit = <<>> /\ urls_to_visit' = <<>>)
      ]_vars

\* a crawl with max_pages = 0 fetched three pages and ended with the queue
\* empty
C33_Witness ==
    /\ max_pages = 0
    /\ pc = "done"
    /\ urls_to_visit = <<>>
    /\ pages_scraped = 3
    /\ Cardinality(fetched.once) = 3

----------------------------------------------------------------------------
(* flatten_folders: folders holding a single file become a file of their
   parent.  A name is a sequence of tokens, the last one the extension when
   it begins with a dot; a path is the sequence of names below MDX_DIR, <<>>
   being MDX_DIR itself; a tree is [dirs, files], two sets of paths. *)

MaxDepth == 2

FolderNames == { <<"a">>, <<"b">> }

FileNames == { <<"item-page", ".mdx">>, <<"a", ".mdx">> }

ExtToks == {".mdx"}

NoTree == [dirs |-> {}, files |-> {}]

Merge(s, t) == [dirs |-> s.dirs \cup t.dirs, files |-> s.files \cup t.files]

RECURSIVE TreesAt(_, _)
RECURSIVE WithFolders(_, _, _, _)

\* the folder p \o <<n>> is absent, or it is there with a tree below it
SubTrees(p, n, d) ==
    {NoTree} \cup { Merge([dirs |-> {p \o <<n>>}, files |-> {}], t) :
                       t \in TreesAt(p \o <<n>>, d - 1) }

WithFolders(names, p, d, acc) ==
    IF names = {} THEN acc
    ELSE LET n == CHOOSE x \in names : TRUE
         IN  WithFolders(names \ {n}, p, d,
                         { Merge(t, s) : t \in acc, s \in SubTrees(p, n, d) })

\* the trees below the directory p with folders nested at most d deep
TreesAt(p, d) ==
    IF d = 0
    THEN { [dirs |-> {}, files |-> { p \o <<f>> : f \in fs }] : fs \in SUBSET FileNames }
    ELSE WithFolders(FolderNames, p, d,
                     { [dirs |-> {}, files |-> { p \o <<f>> : f \in fs }] :
                          fs \in SUBSET FileNames })

\* the entries of set directly in the directory p
ChildrenOf(set, p) == { q \in set : Len(q) = Len(p) + 1 /\ Take(q, Len(p)) = p }

\* os.path.exists
Exists(t, p) == p \in t.dirs \/ p \in t.files

\* os.path.splitext(filename)[1]
ExtOf(filename) ==
    IF Len(filename) >= 2 /\ filename[Len(filename)] \in ExtToks
    THEN <<filename[Len(filename)]>> ELSE <<>>

\* "if len(dirs) == 0 and len(files) == 1", root not being base_dir
IsSingleFileFolder(t, p) ==
    /\ p # <<>>
    /\ ChildrenOf(t.dirs, p) = {}
    /\ Cardinality(ChildrenOf(t.files, p)) = 1

\* the (root, files[0]) the walk appends at p, if any
OwnEntry(t, p) ==
    IF IsSingleFileFolder(t, p)
    THEN << <<p, (CHOOSE f \in ChildrenOf(t.files, p) : TRUE)[Len(p) + 1]>> >>
    ELSE <<>>

RECURSIVE Walks(_, _)
RECURSIVE WalkAll(_, _)

\* the lists the walk can build below the folders of order, taken in order
WalkAll(t, order) ==
    IF order = <<>> THEN { <<>> }
    ELSE { a \o b : a \in Walks(t, Head(order)), b \in WalkAll(t, Tail(order)) }

\* os.walk(topdown=False) from p: the folders of p in the order the
\* directory listing gives them, each walked to its end, then p itself
Walks(t, p) ==
    { w \o OwnEntry(t, p) :
         w \in UNION { WalkAll(t, o) : o \in Orders(ChildrenOf(t.dirs, p)) } }

get_single_file_folders(t) == Walks(t, <<>>)

\* new_file_path: parent_dir/folder_name + ext
NewFilePath(folder_path, filename) ==
    Take(folder_path, Len(folder_path) - 1)
       \o << folder_path[Len(folder_path)] \o ExtOf(filename) >>

\* the move and the rmdir
Moved(t, folder_path, filename) ==
    [dirs  |-> t.dirs \ {folder_path},
     files |-> (t.files \ {folder_path \o <<filename>>})
                  \cup {NewFilePath(folder_path, filename)}]

\* flatten_folder moving the file whatever is at the destination
flatten_folder_Overwrite(t, folder_path, filename) ==
    [ok |-> TRUE, tree |-> Moved(t, folder_path, filename)]

\* flatten_folder: [ok, tree], ok the value returned
flatten_folder(t, folder_path, filename) ==
    IF Exists(t, NewFilePath(folder_path, filename))
    THEN [ok |-> FALSE, tree |-> t]
    ELSE [ok |-> TRUE, tree |-> Moved(t, folder_path, filename)]

FlatInit ==
    /\ CrawlOff
    /\ u1 = <<>> /\ u2 = <<>> /\ r1 = <<>> /\ r2 = <<>> /\ fpc = "idle"
    /\ tree \in TreesAt(<<>>, MaxDepth)
    /\ single_file_folders = <<>>
    /\ folder_i = 0
    /\ made_progress = Unbound
    /\ flattened_count = 0
    /\ mpc = "while"

\* main: the head of "while True" with folders to flatten
Scan ==
    /\ mpc = "while"
    /\ \E l \in get_single_file_folders(tree) :
          /\ l # <<>>
          /\ single_file_folders' = l
    /\ folder_i' = 0
    /\ made_progress' = <<FALSE>>
    /\ mpc' = "for"
    /\ UNCHANGED <<crawl_vars, fn_vars, tree, flattened_count>>

\* main: "if not single_file_folders: break"
ScanEmpty ==
    /\ mpc = "while"
    /\ <<>> \in get_single_file_folders(tree)
    /\ single_file_folders' = <<>>
    /\ mpc' = "done"
    /\ UNCHANGED <<crawl_vars, fn_vars, tree, folder_i, made_progress, flattened_count>>

\* main: one pass of the for loop
FlattenFolder ==
    /\ mpc = "for"
    /\ folder_i < Len(single_file_folders)
    /\ \E r \in {flatten_folder(tree, single_file_folders[folder_i + 1][1],
                                single_file_folders[folder_i + 1][2])} :
          /\ tree' = r.tree
          /\ flattened_count' = IF r.ok THEN flattened_count + 1 ELSE flattened_count
          /\ made_progress' = IF r.ok THEN <<TRUE>> ELSE made_progress
    /\ folder_i' = folder_i + 1
    /\ UNCHANGED <<crawl_vars, fn_vars, single_file_folders, mpc>>

\* main: the for loop is over and made_progress is true
NextRound ==
    /\ mpc = "for"
    /\ folder_i = Len(single_file_folders)
    /\ made_progress = <<TRUE>>
    /\ mpc' = "while"
    /\ UNCHANGED <<crawl_vars, fn_vars, tree, single_file_folders, folder_i,
                   made_progress, flattened_count>>

\* main: "if not made_progress: break"
NoProgress ==
    /\ mpc = "for"
    /\ folder_i = Len(single_file_folders)
    /\ made_progress = <<FALSE>>
    /\ mpc' = "done"
    /\ UNCHANGED <<crawl_vars, fn_vars, tree, single_file_folders, folder_i,
                   made_progress, flattened_count>>

FlatNext ==
    \/ Scan
    \/ ScanEmpty
    \/ FlattenFolder
    \/ NextRound
    \/ NoProgress

FlatSpec == FlatInit /\ [][FlatNext]_vars

----------------------------------------------------------------------------
\* the measure of main: twice the folders left, plus one while made_progress
\* is not False; then the position in the loops
FlatVariant ==
    << 2 * Cardinality(tree.dirs) + (IF made_progress = <<FALSE>> THEN 0 ELSE 1),
       CASE mpc = "for"   -> 2 + Len(single_file_folders) - folder_i
         [] mpc = "while" -> 1
         [] OTHER         -> 0 >>

\* the lexicographic order of pairs of naturals
LexLess(v, w) == v[1] < w[1] \/ (v[1] = w[1] /\ v[2] < w[2])

FlatCanStep ==
    /\ mpc = "while" => ENABLED (Scan \/ ScanEmpty)
    /\ mpc = "for" => ENABLED (FlattenFolder \/ NextRound \/ NoProgress)

\* the file of the single-file folder p
OnlyFile(t, p) == (CHOOSE f \in ChildrenOf(t.files, p) : TRUE)[Len(p) + 1]

(* C34: main terminates: every step lowers a measure in a well-founded
   order and main is never stuck before its end.  flatten_folder never
   overwrites: no step changes the number of files; when the destination
   exists the call leaves the tree and the count as they were; otherwise the
   file moves to a path that was free and every other file stays.  When main
   has ended, every folder left with exactly one file and no subfolder has
   its destination taken. *)
C34_FlattenTerminates ==
    /\ [][ /\ LexLess(FlatVariant', FlatVariant)
           /\ Cardinality(tree'.files) = Cardinality(tree.files)
           /\ (mpc = "for" /\ folder_i < Len(single_file_folders)) =>
                 \E e \in {single_file_folders[folder_i + 1]} :
                    /\ IsSingleFileFolder(tree, e[1])
                    /\ e[1] \o <<e[2]>> \in tree.files
                    /\ IF Exists(tree, NewFilePath(e[1], e[2]))
                       THEN /\ tree' = tree
                            /\ flattened_count' = flattened_count
                            /\ made_progress' = made_progress
                       ELSE /\ tree'.files = (tree.files \ {e[1] \o <<e[2]>>})
                                                \cup {NewFilePath(e[1], e[2])}
                            /\ tree'.dirs = tree.dirs \ {e[1]}
                            /\ flattened_count' = flattened_count + 1
                            /\ made_progress' = <<TRUE>>
         ]_vars
    /\ [](/\ FlatVariant[1] >= 0 /\ FlatVariant[2] >= 0
          /\ FlatCanStep
          /\ mpc = "done" =>
                \A p \in tree.dirs :
                    IsSingleFileFolder(tree, p)
                       => Exists(tree, NewFilePath(p, OnlyFile(tree, p))))

\* main ended after two rounds that flattened a folder each, the second one
\* a folder the first round had made a single-file folder, and a folder is
\* left whose destination is taken
C34_Witness ==
    /\ mpc = "done"
    /\ flattened_count >= 2
    /\ <<"b", ".mdx">> \in { p[1] : p \in { q \in tree.files : Len(q) = 1 } }
    /\ \E p \in tree.dirs :
          /\ IsSingleFileFolder(tree, p)
          /\ Exists(tree, NewFilePath(p, OnlyFile(tree, p)))

====
